---- MODULE Spec2Model ----
(***************************************************************************)
(* A model of the Sheepshead rules engine: the card model (src/deck.py),   *)
(* the Trick / Hand values and the winner resolution (src/data.py), the    *)
(* players and their play strategies (src/player.py) and the session       *)
(* driver with its scoring (src/game.py).                                  *)
(*                                                                         *)
(* Indices that the program exposes (seats, the winning card index) are    *)
(* 0-based as in the source; TLA+ sequences are 1-based, so position i of  *)
(* a Python list is element i+1 of the sequence that models it.            *)
(***************************************************************************)
EXTENDS Integers, Sequences, FiniteSets, TLC

\* ------------------------------------------------------------------------
\* Bounds of the exploration (not program constants)
\* ------------------------------------------------------------------------

\* Number of hands of the sessions SpecSession explores (--hands).
MaxHands == 2

\* Number of card draws of a hand of Spec whose whole range is explored; every
\* other draw takes the first candidate in the order of the player's cards.
MaxDeviations == 1

\* ------------------------------------------------------------------------
\* src/deck.py: Suit, Power, Card
\* ------------------------------------------------------------------------

DIAMOND == "DIAMOND"
HEART   == "HEART"
SPADE   == "SPADE"
CLUB    == "CLUB"

Suit == {DIAMOND, HEART, SPADE, CLUB}

fail_suits == {HEART, SPADE, CLUB}

SEVEN == 0
EIGHT == 1
NINE  == 2
KING  == 3
TEN   == 5
ACE   == 8
JACK  == 13
QUEEN == 21

Power == {SEVEN, EIGHT, NINE, KING, TEN, ACE, JACK, QUEEN}

\* max([e.value for e in Power])
Max(S) == CHOOSE x \in S : \A y \in S : y <= x

STRENGTH_POWER_OFFSET == Max(Power)

\* The value of an absent mask (_mask = None).
NoMask == "NONE"

\* Card(_suit, power, _mask): a frozen dataclass, equal iff all three fields are.
Card(s, p, m) == [suit |-> s, power |-> p, mask |-> m]

\* The value of an absent card (called_card = None).
None == [suit |-> "NONE", power |-> -1, mask |-> "NONE"]

is_hidden(c) == c.mask # NoMask

\* Card.suit: the mask if there is one, else the true suit.
suit(c) == IF c.mask # NoMask THEN c.mask ELSE c.suit

is_trump(c) == ~is_hidden(c) /\ (suit(c) = DIAMOND \/ c.power >= JACK)

is_fail(c) == ~is_trump(c)

\* Card.strength without the offset of the trumps.
strength_without_offset(c) == IF is_hidden(c) THEN -1 ELSE c.power

strength(c) ==
    IF is_trump(c) THEN c.power + STRENGTH_POWER_OFFSET
    ELSE IF is_hidden(c) THEN -1
    ELSE c.power

points(c) ==
    IF is_hidden(c) \/ c.power < KING THEN 0
    ELSE IF c.power = KING THEN 4
    ELSE IF c.power = TEN THEN 10
    ELSE IF c.power = ACE THEN 11
    ELSE IF c.power = JACK THEN 2
    ELSE 3

\* Card.reveal built from the suit property (the mask) instead of _suit.
reveal_as_masked_suit(c) == IF is_hidden(c) THEN Card(suit(c), c.power, NoMask) ELSE c

reveal(c) == IF is_hidden(c) THEN Card(c.suit, c.power, NoMask) ELSE c

\* ------------------------------------------------------------------------
\* Python list helpers
\* ------------------------------------------------------------------------

Range(s) == {s[i] : i \in 1..Len(s)}

\* list.index(x) + 1: the first position holding x (x is in s).
IndexOf(s, x) == CHOOSE i \in 1..Len(s) : s[i] = x /\ \A j \in 1..(i - 1) : s[j] # x

\* list.pop(i - 1): the list without position i.
RemoveAt(s, i) == [j \in 1..(Len(s) - 1) |-> IF j < i THEN s[j] ELSE s[j + 1]]

\* list.remove(x): the list without the first occurrence of x.
Remove(s, x) == RemoveAt(s, IndexOf(s, x))

RECURSIVE SumPoints(_)
SumPoints(s) == IF s = <<>> THEN 0 ELSE points(Head(s)) + SumPoints(Tail(s))

\* max that returns the last element of maximal power.
MaxByPower_last_of_equals(s) ==
    s[CHOOSE i \in 1..Len(s) :
        /\ \A j \in 1..Len(s) : s[j].power <= s[i].power
        /\ \A j \in (i + 1)..Len(s) : s[j].power < s[i].power]

\* max(s, key=lambda c: c.power): the first element of maximal power.
MaxByPower(s) ==
    s[CHOOSE i \in 1..Len(s) :
        /\ \A j \in 1..Len(s) : s[j].power <= s[i].power
        /\ \A j \in 1..(i - 1) : s[j].power < s[i].power]

\* ------------------------------------------------------------------------
\* src/data.py: Trick, Hand, winner resolution and the derived queries
\* ------------------------------------------------------------------------

CALLED_ACE == "CALLED_ACE"
ALONE      == "ALONE"
UNDER      == "UNDER"
CALLED_TEN == "CALLED_TEN"

PickStyle == {CALLED_ACE, ALONE, UNDER, CALLED_TEN}

\* Trick.__init__ without the check for duplicate cards.
TrickInitOk_allows_duplicates(cards) == Len(cards) <= 5

\* Trick.__init__ accepts a card list iff it has at most 5 cards, all distinct.
TrickInitOk(cards) == Len(cards) <= 5 /\ Cardinality(Range(cards)) = Len(cards)

\* Trick.play(card) returns Trick(self._cards + [card]), or raises ValueError.
TrickPlayOk(trick, card) == TrickInitOk(Append(trick, card))

TrickPlay(trick, card) == Append(trick, card)

is_full(trick) == Len(trick) = 5

TrickPoints(trick) == SumPoints(trick)

\* Hand.__init__ without the limit on the number of tricks.
HandInitOk_any_length(pick_style, called_card, tricks) ==
    ~((called_card = None /\ pick_style # ALONE) \/ (called_card # None /\ pick_style = ALONE))

\* Hand.__init__ without the check of the pick style against the called card.
HandInitOk_any_called_card(pick_style, called_card, tricks) == Len(tricks) <= 6

\* Hand.__init__ accepts iff the pick style and the called card agree and
\* there are at most 6 tricks.
HandInitOk(pick_style, called_card, tricks) ==
    /\ ~((called_card = None /\ pick_style # ALONE) \/ (called_card # None /\ pick_style = ALONE))
    /\ Len(tricks) <= 6

Hand(dealer_seat, picker_seat, pick_style, called_card, tricks) ==
    [dealer_seat |-> dealer_seat, picker_seat |-> picker_seat,
     pick_style |-> pick_style, called_card |-> called_card, tricks |-> tricks]

\* The trick list Hand.play builds: the card goes to the last trick, or, when
\* there is no trick or the last trick refuses it (IndexError, ValueError),
\* to a new trick after it.
HandPlayTricks(tricks, card) ==
    IF Len(tricks) > 0 /\ TrickPlayOk(tricks[Len(tricks)], card)
    THEN [tricks EXCEPT ![Len(tricks)] = TrickPlay(tricks[Len(tricks)], card)]
    ELSE Append(tricks, <<card>>)

HandPlayOk(hand, card) ==
    HandInitOk(hand.pick_style, hand.called_card, HandPlayTricks(hand.tricks, card))

HandPlay(hand, card) ==
    Hand(hand.dealer_seat, hand.picker_seat, hand.pick_style, hand.called_card,
         HandPlayTricks(hand.tricks, card))

\* Objects by reference.  A store is the sequence of the objects allocated so
\* far and the address of an object is its index in it.  A list is a cell
\* holding its items, a Trick a cell holding the address of its _cards list,
\* a Hand a cell holding its four fields and the address of its _tricks list,
\* whose items are addresses of Tricks.  Cards are values.
NewObject(store, cell) == [store |-> Append(store, cell), ref |-> Len(store) + 1]

\* Trick(cards): the checks of Trick.__init__, then `self._cards = cards`,
\* which keeps the caller's list itself.  ok is FALSE for ValueError.
Trick_init(store, cards) ==
    IF TrickInitOk(store[cards].items)
    THEN LET new == NewObject(store, [type |-> "Trick", _cards |-> cards])
         IN  [store |-> new.store, ref |-> new.ref, ok |-> TRUE]
    ELSE [store |-> store, ref |-> 0, ok |-> FALSE]

\* self.play(card) of a Trick: `self._cards + [card]` allocates a list, which
\* the constructor is called with.
Trick_play(store, self, card) ==
    LET sum == NewObject(store, [type  |-> "list",
                                 items |-> store[store[self]._cards].items \o <<card>>])
    IN  Trick_init(sum.store, sum.ref)

\* Hand.play with `tricks = self._tricks` in place of the deep copy.
deepcopy_same_list(store, tricks) == [store |-> store, ref |-> tricks]

\* deepcopy(self._tricks): a new list whose items are copies of the Tricks of
\* the list, each with a copy of its _cards list.  The memo of deepcopy maps
\* every object copied so far to its copy (0: not copied yet), so a Trick or
\* a card list reached twice is copied once and the copy shares what the
\* original shares.
deepcopy(store, tricks) ==
    LET items == store[tricks].items
        Copied[n \in 0..Len(items)] ==
            IF n = 0
            THEN [store |-> store, memo |-> [a \in 1..Len(store) |-> 0], refs |-> <<>>]
            ELSE LET before == Copied[n - 1]
                     old    == items[n]
                     list   == store[old]._cards
                     cards  == IF before.memo[list] # 0
                               THEN [store |-> before.store, ref |-> before.memo[list]]
                               ELSE NewObject(before.store,
                                              [type |-> "list", items |-> store[list].items])
                     trick  == NewObject(cards.store, [type |-> "Trick", _cards |-> cards.ref])
                 IN  IF before.memo[old] # 0
                     THEN [before EXCEPT !.refs = Append(@, before.memo[old])]
                     ELSE [store |-> trick.store,
                           memo  |-> [before.memo EXCEPT ![list] = cards.ref,
                                                         ![old] = trick.ref],
                           refs  |-> Append(before.refs, trick.ref)]
    IN  NewObject(Copied[Len(items)].store,
                  [type |-> "list", items |-> Copied[Len(items)].refs])

\* Hand(dealer_seat, picker_seat, pick_style, called_card, tricks): the checks
\* of Hand.__init__, then `self._tricks = tricks`.  ok is FALSE for ValueError.
Hand_init(store, dealer_seat, picker_seat, pick_style, called_card, tricks) ==
    IF HandInitOk(pick_style, called_card, store[tricks].items)
    THEN LET new == NewObject(store, [type |-> "Hand", dealer_seat |-> dealer_seat,
                                      picker_seat |-> picker_seat, pick_style |-> pick_style,
                                      called_card |-> called_card, _tricks |-> tricks])
         IN  [store |-> new.store, ref |-> new.ref, ok |-> TRUE]
    ELSE [store |-> store, ref |-> 0, ok |-> FALSE]

\* self.play(card) of a Hand, statement by statement:
\*   tricks = deepcopy(self._tricks)
\*   trick = []
\*   try: tricks[-1] = self._tricks[-1].play(card)
\*   except (IndexError, ValueError): trick.append(Trick([card]))
\*   return type(self)(..., tricks + trick)
Hand_play(store, self, card) ==
    LET me     == store[self]
        tricks == deepcopy(store, me._tricks)
        trick  == NewObject(tricks.store, [type |-> "list", items |-> <<>>])
        mine   == trick.store[me._tricks].items
        copies == trick.store[tricks.ref].items
        played == IF Len(mine) = 0
                  THEN [store |-> trick.store, ref |-> 0, ok |-> FALSE]
                  ELSE Trick_play(trick.store, mine[Len(mine)], card)
        tried  == IF played.ok
                  THEN [played.store EXCEPT ![tricks.ref].items[Len(copies)] = played.ref]
                  ELSE LET one == NewObject(played.store,
                                            [type |-> "list", items |-> <<card>>])
                           new == Trick_init(one.store, one.ref)
                       IN  [new.store EXCEPT ![trick.ref].items = Append(@, new.ref)]
        sum    == NewObject(tried, [type  |-> "list",
                                    items |-> tried[tricks.ref].items \o tried[trick.ref].items])
    IN  Hand_init(sum.store, me.dealer_seat, me.picker_seat, me.pick_style,
                  me.called_card, sum.ref)

\* list(trick) of the Trick at an address.
TrickAt(store, ref) == store[store[ref]._cards].items

\* The fields and the tricks of the Hand at an address.
HandAt(store, ref) ==
    Hand(store[ref].dealer_seat, store[ref].picker_seat, store[ref].pick_style,
         store[ref].called_card,
         [n \in 1..Len(store[store[ref]._tricks].items) |->
             TrickAt(store, store[store[ref]._tricks].items[n])])

\* A store holding a Trick of the given cards, with a list of its own.
StoreTrick(store, cards) ==
    LET list == NewObject(store, [type |-> "list", items |-> cards])
    IN  NewObject(list.store, [type |-> "Trick", _cards |-> list.ref])

\* A store holding the given Hand: each of its tricks is a Trick of its own.
StoreHand(store, hand) ==
    LET Stored[n \in 0..Len(hand.tricks)] ==
            IF n = 0 THEN [store |-> store, refs |-> <<>>]
            ELSE LET trick == StoreTrick(Stored[n - 1].store, hand.tricks[n])
                 IN  [store |-> trick.store, refs |-> Append(Stored[n - 1].refs, trick.ref)]
        list == NewObject(Stored[Len(hand.tricks)].store,
                          [type |-> "list", items |-> Stored[Len(hand.tricks)].refs])
    IN  NewObject(list.store,
                  [type |-> "Hand", dealer_seat |-> hand.dealer_seat,
                   picker_seat |-> hand.picker_seat, pick_style |-> hand.pick_style,
                   called_card |-> hand.called_card, _tricks |-> list.ref])

\* A store holding the given Hand with every trick that occurs more than once
\* in it stored as one Trick, as in Hand(..., [t, t]).
StoreSharedHand(store, hand) ==
    LET First(n) == CHOOSE m \in 1..n : hand.tricks[m] = hand.tricks[n]
        Stored[n \in 0..Len(hand.tricks)] ==
            IF n = 0 THEN [store |-> store, refs |-> <<>>]
            ELSE IF First(n) < n
                 THEN [Stored[n - 1] EXCEPT !.refs = Append(@, @[First(n)])]
                 ELSE LET trick == StoreTrick(Stored[n - 1].store, hand.tricks[n])
                      IN  [store |-> trick.store,
                           refs  |-> Append(Stored[n - 1].refs, trick.ref)]
        list == NewObject(Stored[Len(hand.tricks)].store,
                          [type |-> "list", items |-> Stored[Len(hand.tricks)].refs])
    IN  NewObject(list.store,
                  [type |-> "Hand", dealer_seat |-> hand.dealer_seat,
                   picker_seat |-> hand.picker_seat, pick_style |-> hand.pick_style,
                   called_card |-> hand.called_card, _tricks |-> list.ref])

\* The receiver's cards once trick.play(card) has returned or raised.
TrickAfterPlay(trick, card) ==
    LET self == StoreTrick(<<>>, trick)
    IN  TrickAt(Trick_play(self.store, self.ref, card).store, self.ref)

\* The receiver's fields and tricks once hand.play(card) has returned or
\* raised.
HandAfterPlay(hand, card) ==
    LET self == StoreHand(<<>>, hand)
    IN  HandAt(Hand_play(self.store, self.ref, card).store, self.ref)

\* The same for a receiver whose equal tricks are one Trick.
SharedHandAfterPlay(hand, card) ==
    LET self == StoreSharedHand(<<>>, hand)
    IN  HandAt(Hand_play(self.store, self.ref, card).store, self.ref)

\* [c for c in trick if c.is_trump]
Trumps(trick) == SelectSeq(trick, is_trump)

\* winning_card_idx with the called-card override tested before the trumps.
winning_card_idx_called_first(trick, called_card) ==
    IF trick = <<>> THEN -1
    ELSE IF called_card \in Range(trick) /\ suit(trick[1]) = suit(called_card)
    THEN IndexOf(trick, called_card) - 1
    ELSE IF \E i \in 1..Len(trick) : is_trump(trick[i])
    THEN IndexOf(trick, MaxByPower(Trumps(trick))) - 1
    ELSE LET lead_suit == suit(trick[1])
             SameSuitFail(c) == is_fail(c) /\ suit(c) = lead_suit
         IN  IndexOf(trick, MaxByPower(SelectSeq(trick, SameSuitFail))) - 1

\* winning_card_idx without the called-card override.
winning_card_idx_no_override(trick, called_card) ==
    IF trick = <<>> THEN -1
    ELSE IF \E i \in 1..Len(trick) : is_trump(trick[i])
    THEN IndexOf(trick, MaxByPower(Trumps(trick))) - 1
    ELSE LET lead_suit == suit(trick[1])
             SameSuitFail(c) == is_fail(c) /\ suit(c) = lead_suit
         IN  IndexOf(trick, MaxByPower(SelectSeq(trick, SameSuitFail))) - 1

\* winning_card_idx(trick, called_card): the 0-based index of the winning
\* card; -1 stands for the exception an empty trick raises.
winning_card_idx(trick, called_card) ==
    IF trick = <<>> THEN -1
    ELSE IF \E i \in 1..Len(trick) : is_trump(trick[i])
    THEN IndexOf(trick, MaxByPower(Trumps(trick))) - 1
    ELSE IF called_card \in Range(trick) /\ suit(trick[1]) = suit(called_card)
    THEN IndexOf(trick, called_card) - 1
    ELSE LET lead_suit == suit(trick[1])
             SameSuitFail(c) == is_fail(c) /\ suit(c) = lead_suit
         IN  IndexOf(trick, MaxByPower(SelectSeq(trick, SameSuitFail))) - 1

winning_card(trick, called_card) == trick[winning_card_idx(trick, called_card) + 1]

\* The replay loop without `lead_seat = winner_seat`.
LeadSeatOf_lead_never_moves(hand, n) == (hand.dealer_seat + 1) % 5

\* The seat that leads trick number n (1-based) of the hand: the replay loop
\* shared by tricks_taken_by_seat, cards_played_by_seat and seat_with_card.
RECURSIVE LeadSeatOf(_, _)
LeadSeatOf(hand, n) ==
    IF n = 1 THEN (hand.dealer_seat + 1) % 5
    ELSE (winning_card_idx(hand.tricks[n - 1], hand.called_card) + LeadSeatOf(hand, n - 1)) % 5

WinnerSeatOf(hand, n) ==
    (winning_card_idx(hand.tricks[n], hand.called_card) + LeadSeatOf(hand, n)) % 5

\* tricks_taken_by_seat(hand, *seats): the tricks won by one of the seats.
tricks_taken_by_seat(hand, seats) ==
    LET Taken[n \in 0..Len(hand.tricks)] ==
            IF n = 0 THEN <<>>
            ELSE IF WinnerSeatOf(hand, n) \in seats
                 THEN Append(Taken[n - 1], hand.tricks[n])
                 ELSE Taken[n - 1]
    IN  Taken[Len(hand.tricks)]

\* seat_with_card that never moves the lead to the winner of a trick.
seat_with_card_lead_never_moves(hand, card) ==
    IF \A n \in 1..Len(hand.tricks) : card \notin Range(hand.tricks[n]) THEN -1
    ELSE LET n == CHOOSE k \in 1..Len(hand.tricks) :
                      /\ card \in Range(hand.tricks[k])
                      /\ \A j \in 1..(k - 1) : card \notin Range(hand.tricks[j])
         IN  ((IndexOf(hand.tricks[n], card) - 1) + (hand.dealer_seat + 1)) % 5

\* seat_with_card(hand, card): the seat that played the card; -1 stands for
\* the ValueError raised when no trick holds it.
seat_with_card(hand, card) ==
    IF \A n \in 1..Len(hand.tricks) : card \notin Range(hand.tricks[n]) THEN -1
    ELSE LET n == CHOOSE k \in 1..Len(hand.tricks) :
                      /\ card \in Range(hand.tricks[k])
                      /\ \A j \in 1..(k - 1) : card \notin Range(hand.tricks[j])
         IN  ((IndexOf(hand.tricks[n], card) - 1) + LeadSeatOf(hand, n)) % 5

\* cards_played_by_seat(hand, *seats): for every trick in turn and every seat
\* of seats in turn, the card at index (lead_seat + seat) % 5 of the trick.
cards_played_by_seat(hand, seats) ==
    LET Picked(n) == [k \in 1..Len(seats) |->
                         hand.tricks[n][((LeadSeatOf(hand, n) + seats[k]) % 5) + 1]]
        Cards[n \in 0..Len(hand.tricks)] ==
            IF n = 0 THEN <<>> ELSE Cards[n - 1] \o Picked(n)
    IN  Cards[Len(hand.tricks)]

\* ------------------------------------------------------------------------
\* src/deck.py: the 32 cards and the packs that are dealt
\* ------------------------------------------------------------------------

Plain(s, p) == Card(s, p, NoMask)

\* The 32 cards create_piquet_pack lists, before the shuffle.
PiquetCards == {Plain(s, p) : s \in Suit, p \in Power}

\* random.shuffle(cards) can produce every order of the 32 cards; the orders
\* below are the ones explored. Seat (dealer_seat + 1 + i) % 5 receives cards
\* 6i+1..6i+6 and the last two cards are the blind.

\* One seat holds the six highest trumps, the next one all fail aces and tens,
\* and the blind is two jacks.
PackTopTrumps ==
    << Plain(CLUB, QUEEN), Plain(SPADE, QUEEN), Plain(HEART, QUEEN),
       Plain(DIAMOND, QUEEN), Plain(CLUB, JACK), Plain(SPADE, JACK),
       Plain(CLUB, ACE), Plain(SPADE, ACE), Plain(HEART, ACE),
       Plain(CLUB, TEN), Plain(SPADE, TEN), Plain(HEART, TEN),
       Plain(DIAMOND, SEVEN), Plain(DIAMOND, EIGHT), Plain(CLUB, KING),
       Plain(CLUB, NINE), Plain(SPADE, KING), Plain(HEART, SEVEN),
       Plain(DIAMOND, NINE), Plain(DIAMOND, KING), Plain(CLUB, SEVEN),
       Plain(SPADE, EIGHT), Plain(SPADE, NINE), Plain(HEART, KING),
       Plain(DIAMOND, TEN), Plain(DIAMOND, ACE), Plain(CLUB, EIGHT),
       Plain(SPADE, SEVEN), Plain(HEART, EIGHT), Plain(HEART, NINE),
       Plain(HEART, JACK), Plain(DIAMOND, JACK) >>

\* The fail aces are spread over three seats; two seats hold none.
PackMixed ==
    << Plain(CLUB, ACE), Plain(CLUB, KING), Plain(HEART, NINE),
       Plain(CLUB, QUEEN), Plain(DIAMOND, JACK), Plain(DIAMOND, NINE),
       Plain(HEART, ACE), Plain(HEART, TEN), Plain(HEART, KING),
       Plain(SPADE, QUEEN), Plain(SPADE, JACK), Plain(DIAMOND, TEN),
       Plain(SPADE, ACE), Plain(SPADE, TEN), Plain(SPADE, KING),
       Plain(CLUB, SEVEN), Plain(CLUB, EIGHT), Plain(CLUB, JACK),
       Plain(CLUB, TEN), Plain(CLUB, NINE), Plain(HEART, SEVEN),
       Plain(HEART, EIGHT), Plain(HEART, QUEEN), Plain(DIAMOND, QUEEN),
       Plain(SPADE, SEVEN), Plain(SPADE, EIGHT), Plain(SPADE, NINE),
       Plain(HEART, JACK), Plain(DIAMOND, KING), Plain(DIAMOND, ACE),
       Plain(DIAMOND, SEVEN), Plain(DIAMOND, EIGHT) >>

\* One seat holds the three fail aces and one fail ten.
PackThreeAces ==
    << Plain(CLUB, ACE), Plain(SPADE, ACE), Plain(HEART, ACE),
       Plain(CLUB, TEN), Plain(CLUB, QUEEN), Plain(CLUB, JACK),
       Plain(SPADE, TEN), Plain(SPADE, KING), Plain(SPADE, NINE),
       Plain(SPADE, QUEEN), Plain(SPADE, JACK), Plain(DIAMOND, NINE),
       Plain(HEART, TEN), Plain(HEART, KING), Plain(HEART, NINE),
       Plain(HEART, QUEEN), Plain(HEART, JACK), Plain(DIAMOND, TEN),
       Plain(CLUB, KING), Plain(CLUB, NINE), Plain(CLUB, EIGHT),
       Plain(CLUB, SEVEN), Plain(SPADE, EIGHT), Plain(DIAMOND, QUEEN),
       Plain(SPADE, SEVEN), Plain(HEART, EIGHT), Plain(HEART, SEVEN),
       Plain(DIAMOND, JACK), Plain(DIAMOND, KING), Plain(DIAMOND, ACE),
       Plain(DIAMOND, SEVEN), Plain(DIAMOND, EIGHT) >>

Packs == {PackTopTrumps, PackMixed, PackThreeAces}

\* One seat holds the three fail aces, a single fail ten and two low spades;
\* another seat holds nothing but trumps.
PackAcesOverSpades ==
    << Plain(CLUB, ACE), Plain(SPADE, ACE), Plain(HEART, ACE),
       Plain(SPADE, KING), Plain(SPADE, NINE), Plain(CLUB, TEN),
       Plain(SPADE, TEN), Plain(SPADE, EIGHT), Plain(SPADE, SEVEN),
       Plain(HEART, KING), Plain(HEART, QUEEN), Plain(HEART, JACK),
       Plain(HEART, TEN), Plain(HEART, NINE), Plain(HEART, EIGHT),
       Plain(SPADE, QUEEN), Plain(SPADE, JACK), Plain(CLUB, KING),
       Plain(HEART, SEVEN), Plain(CLUB, NINE), Plain(CLUB, EIGHT),
       Plain(CLUB, SEVEN), Plain(CLUB, QUEEN), Plain(CLUB, JACK),
       Plain(DIAMOND, QUEEN), Plain(DIAMOND, JACK), Plain(DIAMOND, ACE),
       Plain(DIAMOND, TEN), Plain(DIAMOND, KING), Plain(DIAMOND, NINE),
       Plain(DIAMOND, SEVEN), Plain(DIAMOND, EIGHT) >>

\* The packs dealt in the sessions that exercise the picker strategies.
RolePacks == {PackAcesOverSpades}

\* chunks whose step is one card short of the chunk length.
chunks_overlapping(cards, i) == SubSeq(cards, 5 * i + 1, 5 * i + 6)

\* chunks(cards, 6): chunk number i (0-based) of the pack.
chunks(cards, i) ==
    SubSeq(cards, 6 * i + 1, IF 6 * i + 6 <= Len(cards) THEN 6 * i + 6 ELSE Len(cards))

\* list.sort(key=lambda c: c.power): a stable sort by ascending power.
InsertByPower(sorted, c) ==
    LET k == Cardinality({i \in 1..Len(sorted) : sorted[i].power <= c.power})
    IN  SubSeq(sorted, 1, k) \o <<c>> \o SubSeq(sorted, k + 1, Len(sorted))

RECURSIVE SortByPower(_)
SortByPower(s) ==
    IF s = <<>> THEN <<>>
    ELSE InsertByPower(SortByPower(SubSeq(s, 1, Len(s) - 1)), s[Len(s)])

\* ------------------------------------------------------------------------
\* src/player.py: Player and DefaultPlayer
\* ------------------------------------------------------------------------

Seats == 0..4

\* The value of an absent bury (_bury = None), distinct from every card list.
NoBury == <<None>>

\* The value of an absent seat (_partner_seat = None).
NoSeat == -1

PlayStrategy              == "PlayStrategy"
PartnerStrategy           == "PartnerStrategy"
OppositionStrategy        == "OppositionStrategy"
CalledAcePickerStrategy   == "CalledAcePickerStrategy"
CalledTenPickerStrategy   == "CalledTenPickerStrategy"
CalledUnderPickerStrategy == "CalledUnderPickerStrategy"

\* Player.points_taken: the points of the tricks saved by take() plus the bury.
RECURSIVE SumTrickPoints(_)
SumTrickPoints(ts) ==
    IF ts = <<>> THEN 0 ELSE TrickPoints(Head(ts)) + SumTrickPoints(Tail(ts))

points_taken(player_tricks, player_bury) ==
    SumTrickPoints(player_tricks) + (IF player_bury # NoBury THEN SumPoints(player_bury) ELSE 0)

\* Player.is_picker
is_picker(player_bury) == player_bury # NoBury

\* [xs.pop(), xs.pop()] and what is left of xs afterwards.
PopTwo(xs) == <<xs[Len(xs)], xs[Len(xs) - 1]>>

DropLast(xs, n) == SubSeq(xs, 1, Len(xs) - n)

PickResult(style, called_card, cards, player_bury) ==
    [style |-> style, called_card |-> called_card, cards |-> cards, bury |-> player_bury]

\* The bury without the card to keep being set aside first.
KeepAndBury_keeps_nothing(style, called_card, pool, keep) ==
    PickResult(style, called_card, DropLast(pool, 2), PopTwo(pool))

\* remove(keep); bury = [pop(), pop()]; append(keep)
KeepAndBury(style, called_card, pool, keep) ==
    LET rest == Remove(pool, keep)
    IN  PickResult(style, called_card, Append(DropLast(rest, 2), keep), PopTwo(rest))

\* DefaultPlayer._pick_internal(blind), the random draw being <= 0.25: go alone
\* and bury the blind unseen.
PickAlone(cards, blindCards) == PickResult(ALONE, None, cards, blindCards)

\* _pick_internal that calls the fail card it keeps instead of the Ace of
\* its suit, so that the picker holds the called card.
PickCalled_calls_the_kept_card(cards, blindCards) ==
    LET pool == cards \o blindCards
        fail == {c \in Range(pool) : ~is_trump(c)}
    IN  IF fail = {}
        THEN {PickResult(ALONE, None, cards, blindCards)}
        ELSE {KeepAndBury(CALLED_ACE, k, pool, k) : k \in fail}

\* _pick_internal that keeps any fail card it holds and calls the Ace of its
\* suit, whether or not it holds that Ace.
PickCalled_calls_any_held_suit(cards, blindCards) ==
    LET pool == cards \o blindCards
        fail == {c \in Range(pool) : ~is_trump(c)}
        fail_aces == {f \in fail : f.power = ACE}
        fail_tens == {f \in fail : f.power = TEN}
        fail_ten_suits == {suit(c) : c \in fail_tens}
        held_fail_suits == {suit(f) : f \in fail}
        fail_ace_suits == {suit(a) : a \in fail_aces}
        fail_suits_without_an_ace == held_fail_suits \ fail_ace_suits
        possible_under_suits == fail_suits \ fail_ace_suits
        any_card == pool[Len(pool) - 2]
    IN  IF fail = {}
        THEN \* the third popped card becomes self._unknown and is not put back
             {PickResult(UNDER, Plain(m, ACE), DropLast(pool, 3), PopTwo(pool)) : m \in fail_suits}
        ELSE IF fail_aces = {}
        THEN {KeepAndBury(CALLED_ACE, Plain(suit(k), ACE), pool, k) : k \in fail}
        ELSE IF Cardinality(fail_aces) = 3
        THEN IF Cardinality(fail_tens) = 3
             THEN \* returns before anything is buried
                  {PickResult(ALONE, None, pool, NoBury)}
             ELSE {KeepAndBury(CALLED_TEN, Plain(suit(a), TEN), pool, a) :
                      a \in {x \in fail_aces : suit(x) \notin fail_ten_suits}}
        ELSE IF fail_suits_without_an_ace # {}
        THEN {KeepAndBury(CALLED_ACE, Plain(suit(k), ACE), pool, k) :
                 k \in fail}
        ELSE {PickResult(UNDER, Plain(m, ACE),
                         Append(DropLast(pool, 3), Card(any_card.suit, any_card.power, m)),
                         PopTwo(pool)) : m \in possible_under_suits}

\* DefaultPlayer._pick_internal(blind), the random draw being > 0.25: every
\* (style, called card, held cards, bury) the call can leave. Iterating a
\* set (next(c for c in fail)) and random.choice yield any member.
PickCalled(cards, blindCards) ==
    LET pool == cards \o blindCards
        fail == {c \in Range(pool) : ~is_trump(c)}
        fail_aces == {f \in fail : f.power = ACE}
        fail_tens == {f \in fail : f.power = TEN}
        fail_ten_suits == {suit(c) : c \in fail_tens}
        held_fail_suits == {suit(f) : f \in fail}
        fail_ace_suits == {suit(a) : a \in fail_aces}
        fail_suits_without_an_ace == held_fail_suits \ fail_ace_suits
        possible_under_suits == fail_suits \ fail_ace_suits
        any_card == pool[Len(pool) - 2]
    IN  IF fail = {}
        THEN \* the third popped card becomes self._unknown and is not put back
             {PickResult(UNDER, Plain(m, ACE), DropLast(pool, 3), PopTwo(pool)) : m \in fail_suits}
        ELSE IF fail_aces = {}
        THEN {KeepAndBury(CALLED_ACE, Plain(suit(k), ACE), pool, k) : k \in fail}
        ELSE IF Cardinality(fail_aces) = 3
        THEN IF Cardinality(fail_tens) = 3
             THEN \* returns before anything is buried
                  {PickResult(ALONE, None, pool, NoBury)}
             ELSE {KeepAndBury(CALLED_TEN, Plain(suit(a), TEN), pool, a) :
                      a \in {x \in fail_aces : suit(x) \notin fail_ten_suits}}
        ELSE IF fail_suits_without_an_ace # {}
        THEN {KeepAndBury(CALLED_ACE, Plain(suit(k), ACE), pool, k) :
                 k \in {x \in fail : suit(x) \in fail_suits_without_an_ace}}
        ELSE {PickResult(UNDER, Plain(m, ACE),
                         Append(DropLast(pool, 3), Card(any_card.suit, any_card.power, m)),
                         PopTwo(pool)) : m \in possible_under_suits}

\* HumanPlayer._pick_internal(blind): the blind joins the held cards and the
\* loop reads inputs until two cards are buried. An index buries the card at
\* it; the name of a held card ends the loop at once (break) and buries
\* nothing; any other input asks again. Every answer goes ALONE.
HumanPickResults(cards, blindCards) ==
    LET pool == cards \o blindCards
    IN  {PickResult(ALONE, None, pool, <<>>)}
        \cup {PickResult(ALONE, None, RemoveAt(pool, i), <<pool[i]>>) : i \in 1..Len(pool)}
        \cup {PickResult(ALONE, None, RemoveAt(RemoveAt(pool, i), j),
                         <<pool[i], RemoveAt(pool, i)[j]>>) :
                  i \in 1..Len(pool), j \in 1..(Len(pool) - 1)}

\* StrategyFor that does not look for the called card.
StrategyFor_ignores_called_card(style, called_card, cards, player_bury) ==
    IF is_picker(player_bury) /\ style = UNDER THEN CalledUnderPickerStrategy
    ELSE IF is_picker(player_bury) /\ style = CALLED_ACE THEN CalledAcePickerStrategy
    ELSE IF is_picker(player_bury) /\ style = CALLED_TEN THEN CalledTenPickerStrategy
    ELSE OppositionStrategy

\* DefaultPlayer._update_picker_choice_internal
StrategyFor(style, called_card, cards, player_bury) ==
    IF called_card \in Range(cards) THEN PartnerStrategy
    ELSE IF is_picker(player_bury)
    THEN IF style = ALONE THEN OppositionStrategy
         ELSE IF style = UNDER THEN CalledUnderPickerStrategy
         ELSE IF style = CALLED_ACE THEN CalledAcePickerStrategy
         ELSE CalledTenPickerStrategy
    ELSE OppositionStrategy

\* ------------------------------------------------------------------------
\* src/player.py: the play strategies. Each operator gives the set of cards
\* the call may play; which one is the program's random draw.
\* ------------------------------------------------------------------------

LastTrick(hand) == hand.tricks[Len(hand.tricks)]

\* not len(hand) or not len(hand[-1]) or hand[-1].is_full
IsLead(hand) ==
    Len(hand.tricks) = 0 \/ Len(LastTrick(hand)) = 0 \/ is_full(LastTrick(hand))

\* next((c for c in cards if Test(c)), None)
FirstWhere(cards, Test(_)) ==
    LET sel == SelectSeq(cards, Test) IN IF sel = <<>> THEN None ELSE sel[1]

IsCalledSuitFail(c, hand) == is_fail(c) /\ suit(c) = suit(hand.called_card)

\* leads = [trick[0] for trick in hand]; any(c for c in leads if c.is_fail and ...)
called_has_been_led(hand) ==
    \E n \in 1..Len(hand.tricks) : IsCalledSuitFail(hand.tricks[n][1], hand)

lead_random(cards) == Range(cards)

\* follow_random that does not set the fallback aside.
follow_random_plays_fallback(cards, hand, fallback) ==
    LET lead_card == LastTrick(hand)[1]
        followers == IF is_trump(lead_card)
                     THEN {c \in Range(cards) : is_trump(c)}
                     ELSE {c \in Range(cards) : suit(c) = suit(lead_card) /\ is_fail(c)}
    IN  IF followers # {} THEN followers ELSE Range(cards)

\* follow_random that draws among all the cards but the fallback.
follow_random_ignores_lead(cards, hand, fallback) ==
    Range(cards) \ {IF Len(cards) = 1 THEN None ELSE fallback}

follow_random(cards, hand, fallback) ==
    LET fb == IF Len(cards) = 1 THEN None ELSE fallback
        lead_card == LastTrick(hand)[1]
        followers == IF is_trump(lead_card)
                     THEN {c \in Range(cards) : is_trump(c)}
                     ELSE {c \in Range(cards) : suit(c) = suit(lead_card) /\ is_fail(c)}
    IN  IF followers # {} THEN followers ELSE Range(cards) \ {fb}

\* The Ace of the called suit the called-ten picker holds, or None.
TenCompliment(cards, hand) ==
    LET IsAce(c) == IsCalledSuitFail(c, hand) /\ c.power = ACE
    IN  FirstWhere(cards, IsAce)

\* The fail card of the called suit the called-ace picker holds first, or None.
AceCompliment(cards, hand) ==
    LET IsComp(c) == IsCalledSuitFail(c, hand)
    IN  FirstWhere(cards, IsComp)

\* The masked card the under picker holds, or None.
UnderCompliment(cards, hand) ==
    LET IsComp(c) == IsCalledSuitFail(c, hand) /\ is_hidden(c)
    IN  FirstWhere(cards, IsComp)

\* CalledTenLead that leads the card drawn, whatever it is.
CalledTenLead_any_card(cards, hand) == lead_random(cards)

CalledTenLead(cards, hand) ==
    LET compliment == TenCompliment(cards, hand)
    IN  IF compliment = None THEN lead_random(cards)
        ELSE {IF is_fail(c) /\ suit(c) = suit(compliment) THEN compliment ELSE c :
                 c \in Range(cards)}

CalledTenFollow(cards, hand) ==
    LET compliment == TenCompliment(cards, hand)
        lead_card == LastTrick(hand)[1]
    IN  IF compliment # None /\ IsCalledSuitFail(lead_card, hand)
        THEN {compliment}
        ELSE follow_random(cards, hand, compliment)

\* CalledAceFollow that holds no card back.
CalledAceFollow_holds_nothing(cards, hand) == follow_random(cards, hand, None)

CalledAceFollow(cards, hand) ==
    IF ~called_has_been_led(hand)
    THEN follow_random(cards, hand, AceCompliment(cards, hand))
    ELSE follow_random(cards, hand, None)

\* CalledUnderFollow that holds no card back.
CalledUnderFollow_holds_nothing(cards, hand) == follow_random(cards, hand, None)

CalledUnderFollow(cards, hand) ==
    IF ~called_has_been_led(hand)
    THEN follow_random(cards, hand, UnderCompliment(cards, hand))
    ELSE follow_random(cards, hand, None)

\* PartnerLead that leads the card drawn, whatever it is.
PartnerLead_any_card(cards, hand) == Range(cards)

PartnerLead(cards, hand) ==
    {IF hand.called_card \in Range(cards) /\ IsCalledSuitFail(c, hand)
     THEN hand.called_card ELSE c : c \in Range(cards)}

\* PartnerFollow that keeps the called card for as long as it has another
\* card it may play.
PartnerFollow_keeps_called_card(cards, hand) ==
    LET others == follow_random(cards, hand, hand.called_card) \ {hand.called_card}
    IN  IF others # {} THEN others ELSE {hand.called_card}

\* PartnerFollow that only follows suit.
PartnerFollow_only_follows_suit(cards, hand) == follow_random(cards, hand, hand.called_card)

PartnerFollow(cards, hand) ==
    LET lead_card == LastTrick(hand)[1]
    IN  IF hand.called_card \in Range(cards) /\ IsCalledSuitFail(lead_card, hand)
        THEN {hand.called_card}
        ELSE follow_random(cards, hand, hand.called_card)

\* _lead_internal of each strategy
lead_internal(strategy, cards, hand) ==
    IF strategy = PartnerStrategy THEN PartnerLead(cards, hand)
    ELSE IF strategy = CalledTenPickerStrategy THEN CalledTenLead(cards, hand)
    ELSE lead_random(cards)

\* _follow_internal of each strategy
follow_internal(strategy, cards, hand) ==
    IF strategy = PartnerStrategy THEN PartnerFollow(cards, hand)
    ELSE IF strategy = CalledTenPickerStrategy THEN CalledTenFollow(cards, hand)
    ELSE IF strategy = CalledAcePickerStrategy THEN CalledAceFollow(cards, hand)
    ELSE IF strategy = CalledUnderPickerStrategy THEN CalledUnderFollow(cards, hand)
    ELSE follow_random(cards, hand, None)

NoError == "none"

\* The exception DefaultPlayer._play_internal raises for these cards, or NoError:
\* the card-count assertions of PlayStrategy.lead / follow, the abstract
\* methods of the base PlayStrategy, and next() finding no compliment.
PlayError(strategy, cards, hand) ==
    IF IsLead(hand)
    THEN IF Len(cards) # 6 - Len(hand.tricks) THEN "AssertionError"
         ELSE IF Len(cards) # 1 /\ strategy = PlayStrategy THEN "NotImplementedError"
         ELSE NoError
    ELSE IF Len(cards) # 7 - Len(hand.tricks) THEN "AssertionError"
         ELSE IF Len(cards) = 1 THEN NoError
         ELSE IF strategy = PlayStrategy THEN "NotImplementedError"
         ELSE IF /\ strategy = CalledAcePickerStrategy
                 /\ ~called_has_been_led(hand)
                 /\ AceCompliment(cards, hand) = None THEN "StopIteration"
         ELSE IF /\ strategy = CalledUnderPickerStrategy
                 /\ ~called_has_been_led(hand)
                 /\ UnderCompliment(cards, hand) = None THEN "StopIteration"
         ELSE NoError

\* The cards DefaultPlayer._play_internal may play (PlayError being NoError).
PlayChoices(strategy, cards, hand) ==
    IF Len(cards) = 1 THEN {cards[Len(cards)]}
    ELSE IF IsLead(hand) THEN lead_internal(strategy, cards, hand)
    ELSE follow_internal(strategy, cards, hand)

\* The draw that is taken when the random draws are not explored: the first
\* card, in the order of the held cards, among those that may be played.
FirstChoice(cards, choices) ==
    LET In(c) == c \in choices IN FirstWhere(cards, In)

\* ------------------------------------------------------------------------
\* src/game.py: Outcome and the scoring
\* ------------------------------------------------------------------------

WIN_ALL_TRICKS      == 12
WIN_NO_SCHNEIDER    == 8
WIN_WITH_SCHNEIDER  == 4
LOSE_WITH_SCHNEIDER == -4
LOSE_NO_SCHNEIDER   == -8
Lose_NO_TRICKS      == -12

\* The value of `outcome` while no hand has been scored.
NoOutcome == 0

\* Classify with the point bands tested before the trick counts.
Classify_points_first(tricks_taken, team_points) ==
    IF team_points >= 91 THEN WIN_NO_SCHNEIDER
    ELSE IF team_points >= 61 THEN WIN_WITH_SCHNEIDER
    ELSE IF team_points >= 31 THEN LOSE_WITH_SCHNEIDER
    ELSE IF team_points >= 0 THEN LOSE_NO_SCHNEIDER
    ELSE IF Len(tricks_taken) = 6 THEN WIN_ALL_TRICKS
    ELSE Lose_NO_TRICKS

\* The if / elif chain shared by update_scores_alone and update_scores_partnered.
Classify(tricks_taken, team_points) ==
    IF Len(tricks_taken) = 6 THEN WIN_ALL_TRICKS
    ELSE IF Len(tricks_taken) = 0 THEN Lose_NO_TRICKS
    ELSE IF team_points >= 91 THEN WIN_NO_SCHNEIDER
    ELSE IF team_points >= 61 THEN WIN_WITH_SCHNEIDER
    ELSE IF team_points >= 31 THEN LOSE_WITH_SCHNEIDER
    ELSE LOSE_NO_SCHNEIDER

\* update_scores_alone: the outcome and the delta added to each seat's score.
\* pts[s] is players[s].points_taken.
update_scores_alone(hand, pts) ==
    LET o == Classify(tricks_taken_by_seat(hand, {hand.picker_seat}), pts[hand.picker_seat])
    IN  [outcome |-> o,
         delta |-> [s \in Seats |-> IF s = hand.picker_seat THEN o ELSE -(o \div 4)]]

\* update_scores_partnered with the partner given the picker's delta.
update_scores_partnered_equal_shares(hand, pts) ==
    LET partner == seat_with_card(hand, hand.called_card)
        o == Classify(tricks_taken_by_seat(hand, {hand.picker_seat, partner}),
                      pts[partner] + pts[hand.picker_seat])
    IN  [outcome |-> o,
         delta |-> [s \in Seats |-> IF s = hand.picker_seat THEN o \div 2
                                    ELSE IF s = partner THEN o \div 2
                                    ELSE -(o \div 4)]]

\* update_scores_partnered, the called card being in some trick of the hand.
update_scores_partnered(hand, pts) ==
    LET partner == seat_with_card(hand, hand.called_card)
        o == Classify(tricks_taken_by_seat(hand, {hand.picker_seat, partner}),
                      pts[partner] + pts[hand.picker_seat])
    IN  [outcome |-> o,
         delta |-> [s \in Seats |-> IF s = hand.picker_seat THEN o \div 2
                                    ELSE IF s = partner THEN o \div 4
                                    ELSE -(o \div 4)]]

update_scores(hand, pts) ==
    IF hand.pick_style = ALONE THEN update_scores_alone(hand, pts)
    ELSE update_scores_partnered(hand, pts)

\* ------------------------------------------------------------------------
\* The state of a session (play_game)
\* ------------------------------------------------------------------------

VARIABLES
    number_of_hand,    \* the number of hands play_game was asked for
    hand_no,           \* i, the index of the hand play_game is at
    pc,                \* where play_game / play_hand stands
    error,             \* the exception that ended the session, or NoError
    name,              \* Player.name, per seat of the players list
    seat,              \* Player.seat, per seat of the players list
    score,             \* Player.score, per seat
    dealt_cards,       \* Player._dealt_cards, per seat
    bury,              \* Player._bury, per seat
    tricks,            \* Player._tricks, per seat
    partner_seat,      \* Player._partner_seat, per seat
    partner_is_known,  \* Player._partner_is_known, per seat
    play_strategy,     \* DefaultPlayer._play_strategy, per seat
    blind,             \* the blind deal() returned
    offer,             \* i of play_hand's pick loop
    lead_seat,         \* lead_seat of play_hand
    hand,              \* hand of play_hand
    outcome,           \* the outcome update_scores computed last
    delta,             \* the deltas update_scores applied last, per seat
    winners,           \* the seats play_trick found to take the tricks of the hand
    last,              \* the last Player.play call: seat, card played, cards held before
    budget,            \* card draws that may still be explored over their range
    the_trick,         \* a Trick built by Trick.play calls alone
    the_called_card,   \* the called card the_trick is resolved with
    shuffles,          \* the orders random.shuffle may leave the pack in
    spectate,          \* play_game's argument: FALSE puts a HumanPlayer on seat 0
    the_hand,          \* a Hand built by the constructor and Hand.play calls alone
    call,              \* the last call made on the_trick, the_hand or the_card
    the_card           \* a Card, and what Card.reveal makes of it

vars == <<number_of_hand, hand_no, pc, error, name, seat, score, dealt_cards, bury, tricks,
          partner_seat, partner_is_known, play_strategy, blind, offer, lead_seat, hand,
          outcome, delta, winners, last, budget, the_trick, the_called_card, shuffles,
          spectate, the_hand, call, the_card>>

playerVars == <<dealt_cards, bury, tricks, partner_seat, partner_is_known, play_strategy>>

\* What no action of a session changes.
fixedVars == <<number_of_hand, the_trick, the_called_card, shuffles, spectate, the_hand,
               call, the_card>>

\* The value of an absent hand (None).
NoHand == Hand(NoSeat, NoSeat, ALONE, None, <<>>)

NoPlay == [seat |-> NoSeat, card |-> None, cards |-> <<>>]

\* Five of the names random_name() yields (player_names of play_game).
PlayerNames == <<"Audra", "Aeris", "Aster", "Agnes", "Andra">>

\* play_game builds five DefaultPlayers (Player.__init__, DefaultPlayer.__init__)
\* and enters its loop; `hands` is its argument number_of_hand.
InitGame(hands, draws) ==
    /\ number_of_hand = hands
    /\ hand_no = 0
    /\ pc = IF hands > 0 THEN "deal" ELSE "done"
    /\ error = NoError
    /\ name = [s \in Seats |-> PlayerNames[s + 1]]
    /\ seat = [s \in Seats |-> s]
    /\ score = [s \in Seats |-> 0]
    /\ dealt_cards = [s \in Seats |-> <<>>]
    /\ bury = [s \in Seats |-> NoBury]
    /\ tricks = [s \in Seats |-> <<>>]
    /\ partner_seat = [s \in Seats |-> NoSeat]
    /\ partner_is_known = [s \in Seats |-> FALSE]
    /\ play_strategy = [s \in Seats |-> PlayStrategy]
    /\ blind = <<>>
    /\ offer = 0
    /\ lead_seat = 0
    /\ hand = NoHand
    /\ outcome = NoOutcome
    /\ delta = [s \in Seats |-> 0]
    /\ winners = <<>>
    /\ last = NoPlay
    /\ budget = draws

\* No call has been made on the_hand or the_trick.
NoCall == [op |-> "none", n |-> 0]

NoProbe ==
    /\ the_trick = <<>>
    /\ the_called_card = None
    /\ the_hand = NoHand
    /\ call = NoCall
    /\ the_card = None

\* play_game with spectate set: five DefaultPlayers.
FiveDefaultPlayers == spectate = TRUE

\* A session of one hand.
Init == InitGame(1, MaxDeviations) /\ NoProbe /\ FiveDefaultPlayers /\ shuffles = Packs

\* A session of several hands, every card draw taking its first candidate.
InitSession == InitGame(MaxHands, 0) /\ NoProbe /\ FiveDefaultPlayers /\ shuffles = Packs

\* A session of one hand dealt from the packs that exercise the picker strategies.
InitRoles == InitGame(1, MaxDeviations) /\ NoProbe /\ FiveDefaultPlayers /\ shuffles = RolePacks

\* players[0] = HumanPlayer(name, 0, auto=auto) unless spectating.
IsHuman(s) == ~spectate /\ s = 0

dealer_seat == hand_no % 5

\* The program counter after hand number hand_no is over.
NextHandPc == IF hand_no + 1 < number_of_hand THEN "deal" ELSE "done"

\* deal(players, dealer_seat): a shuffled pack, six cards to each seat from
\* the dealer's left (get_deal sorts them), the last two to the blind.
Deal ==
    /\ pc = "deal"
    /\ \E pack \in shuffles :
          /\ dealt_cards' = [s \in Seats |->
                                SortByPower(chunks(pack, (s - (dealer_seat + 1)) % 5))]
          /\ blind' = chunks(pack, 5)
    /\ lead_seat' = (dealer_seat + 1) % 5
    /\ offer' = 0
    /\ pc' = "offer"
    /\ UNCHANGED <<hand_no, error, score, bury, tricks, partner_seat, partner_is_known,
                   play_strategy, hand, outcome, delta, winners, last, budget, fixedVars, name, seat>>

\* The pick loop starting at the dealer instead of the seat to its left.
under_the_gun_starts_at_dealer == (dealer_seat + offer) % 5

under_the_gun == (lead_seat + offer) % 5

\* play_hand's pick loop: the seat under the gun does not want to pick and
\* another seat is asked.
Decline ==
    /\ pc = "offer"
    /\ offer < 4
    /\ offer' = offer + 1
    /\ UNCHANGED <<hand_no, pc, error, score, playerVars, blind, lead_seat, hand,
                   outcome, delta, winners, last, budget, fixedVars, name, seat>>

\* All five seats decline: play_hand returns None and play_game goes on to
\* the next hand (continue), without scoring and without resetting.
AllPass ==
    /\ pc = "offer"
    /\ offer = 4
    /\ hand_no' = hand_no + 1
    /\ pc' = NextHandPc
    /\ UNCHANGED <<error, score, playerVars, blind, offer, lead_seat, hand,
                   outcome, delta, winners, last, budget, fixedVars, name, seat>>

\* The seat under the gun wants to pick.
Accept ==
    /\ pc = "offer"
    /\ pc' = "pick"
    /\ UNCHANGED <<hand_no, error, score, playerVars, blind, offer, lead_seat, hand,
                   outcome, delta, winners, last, budget, fixedVars, name, seat>>

\* picker.pick(blind), then update_picker_choice for every player, then the
\* empty Hand of play_hand.
Pick ==
    /\ pc = "pick"
    /\ ~IsHuman(under_the_gun)
    /\ \E r \in {PickAlone(dealt_cards[under_the_gun], blind)}
                  \cup PickCalled(dealt_cards[under_the_gun], blind) :
          LET cardsAfter == [dealt_cards EXCEPT ![under_the_gun] = r.cards]
              buryAfter == [bury EXCEPT ![under_the_gun] = r.bury]
          IN  /\ dealt_cards' = cardsAfter
              /\ bury' = buryAfter
              /\ partner_seat' = [s \in Seats |->
                                     IF r.called_card \in Range(cardsAfter[s])
                                     THEN seat[s] ELSE partner_seat[s]]
              /\ play_strategy' = [s \in Seats |->
                                      IF IsHuman(s) THEN play_strategy[s]
                                      ELSE StrategyFor(r.style, r.called_card,
                                                       cardsAfter[s], buryAfter[s])]
              /\ hand' = Hand(dealer_seat, seat[under_the_gun], r.style, r.called_card, <<>>)
    /\ lead_seat' = (dealer_seat + 1) % 5
    /\ winners' = <<>>
    /\ last' = NoPlay
    /\ pc' = "play"
    /\ UNCHANGED <<hand_no, error, score, tricks, partner_is_known, blind, offer,
                   outcome, delta, budget, fixedVars, name, seat>>

\* The seat whose turn it is in play_trick: (lead_seat + i) % 5.
turn_seat == (lead_seat + (IF IsLead(hand) THEN 0 ELSE Len(LastTrick(hand)))) % 5

\* Player.play without the is_partner test: any player that does not hold
\* the called card sets its flag.
KnownAfterPlay_any_player(s) ==
    IF hand.called_card \notin Range(dealt_cards[s]) THEN TRUE ELSE partner_is_known[s]

\* Player.play sets _partner_is_known once the partner no longer holds the called card.
KnownAfterPlay(s) ==
    IF partner_seat[s] = s /\ hand.called_card \notin Range(dealt_cards[s])
    THEN TRUE ELSE partner_is_known[s]

\* players[under_the_gun].play(hand) of play_trick returns a hand with one
\* more card; after the fifth card of a trick play_hand moves the lead to the
\* winner, and after the sixth trick the hand is returned for scoring.
Play ==
    /\ pc = "play"
    /\ ~IsHuman(turn_seat)
    /\ LET s == turn_seat
           cards == dealt_cards[s]
           choices == PlayChoices(play_strategy[s], cards, hand)
       IN  /\ PlayError(play_strategy[s], cards, hand) = NoError
           /\ \E card \in choices :
                 LET first == card = FirstChoice(cards, choices)
                     after == HandPlay(hand, card)
                     full == is_full(LastTrick(after))
                     winner_seat == (winning_card_idx(LastTrick(after), after.called_card)
                                        + lead_seat) % 5
                 IN  /\ first \/ budget > 0
                     /\ budget' = IF first THEN budget ELSE budget - 1
                     /\ dealt_cards' = [dealt_cards EXCEPT ![s] = Remove(cards, card)]
                     /\ hand' = after
                     /\ last' = [seat |-> s, card |-> card, cards |-> cards]
                     /\ lead_seat' = IF full THEN winner_seat ELSE lead_seat
                     /\ winners' = IF full THEN Append(winners, winner_seat) ELSE winners
                     /\ pc' = IF full /\ Len(after.tricks) = 6 THEN "score" ELSE "play"
           /\ partner_is_known' = [partner_is_known EXCEPT ![s] = KnownAfterPlay(s)]
    /\ UNCHANGED <<hand_no, error, score, bury, tricks, partner_seat, play_strategy,
                   blind, offer, outcome, delta, fixedVars, name, seat>>

\* players[under_the_gun].play(hand) raises: the session ends with the exception.
PlayFails ==
    /\ pc = "play"
    /\ ~IsHuman(turn_seat)
    /\ PlayError(play_strategy[turn_seat], dealt_cards[turn_seat], hand) # NoError
    /\ error' = PlayError(play_strategy[turn_seat], dealt_cards[turn_seat], hand)
    /\ partner_is_known' = [partner_is_known EXCEPT ![turn_seat] = KnownAfterPlay(turn_seat)]
    /\ pc' = "crashed"
    /\ UNCHANGED <<hand_no, score, dealt_cards, bury, tricks, partner_seat, play_strategy,
                   blind, offer, lead_seat, hand, outcome, delta, winners, last, budget,
                   fixedVars, name, seat>>

\* players[0].pick(blind) of a HumanPlayer, then update_picker_choice for
\* every player, then the empty Hand of play_hand.
HumanPick ==
    /\ pc = "pick"
    /\ IsHuman(under_the_gun)
    /\ \E r \in HumanPickResults(dealt_cards[under_the_gun], blind) :
          LET cardsAfter == [dealt_cards EXCEPT ![under_the_gun] = r.cards]
              buryAfter == [bury EXCEPT ![under_the_gun] = r.bury]
          IN  /\ dealt_cards' = cardsAfter
              /\ bury' = buryAfter
              /\ play_strategy' = [s \in Seats |->
                                      IF IsHuman(s) THEN play_strategy[s]
                                      ELSE StrategyFor(r.style, r.called_card,
                                                       cardsAfter[s], buryAfter[s])]
              /\ hand' = Hand(dealer_seat, seat[under_the_gun], r.style, r.called_card, <<>>)
    /\ lead_seat' = (dealer_seat + 1) % 5
    /\ winners' = <<>>
    /\ last' = NoPlay
    /\ pc' = "play"
    /\ UNCHANGED <<hand_no, error, score, tricks, partner_seat, partner_is_known, blind,
                   offer, outcome, delta, budget, fixedVars, name, seat>>

\* players[0].play(hand) of a HumanPlayer in play_trick: the card at the index
\* (or of the name) that is typed leaves the held cards and hand.play(card) is
\* evaluated, but HumanPlayer._play_internal returns nothing, so play_trick's
\* hand becomes None and its print of hand[-1][-1] raises TypeError.
HumanPlay ==
    /\ pc = "play"
    /\ IsHuman(turn_seat)
    /\ \E i \in 1..Len(dealt_cards[turn_seat]) :
          /\ HandPlayOk(hand, dealt_cards[turn_seat][i])
          /\ dealt_cards' = [dealt_cards EXCEPT ![turn_seat] = RemoveAt(@, i)]
          /\ last' = [seat |-> turn_seat, card |-> dealt_cards[turn_seat][i],
                      cards |-> dealt_cards[turn_seat]]
    /\ partner_is_known' = [partner_is_known EXCEPT ![turn_seat] = KnownAfterPlay(turn_seat)]
    /\ hand' = NoHand
    /\ error' = "TypeError"
    /\ pc' = "crashed"
    /\ UNCHANGED <<hand_no, score, bury, tricks, partner_seat, play_strategy, blind, offer,
                   lead_seat, outcome, delta, winners, budget, fixedVars, name, seat>>

\* update_scores(players, result): every seat's score takes its delta. The
\* lookup of the partner raises ValueError if no trick holds the called card.
Score ==
    /\ pc = "score"
    /\ IF hand.pick_style # ALONE /\ seat_with_card(hand, hand.called_card) = -1
       THEN /\ error' = "ValueError"
            /\ pc' = "crashed"
            /\ UNCHANGED <<score, outcome, delta>>
       ELSE LET pts == [s \in Seats |-> points_taken(tricks[s], bury[s])]
                r == update_scores(hand, pts)
            IN  /\ score' = [s \in Seats |-> score[s] + r.delta[s]]
                /\ outcome' = r.outcome
                /\ delta' = r.delta
                /\ pc' = "reset"
                /\ UNCHANGED error
    /\ UNCHANGED <<hand_no, playerVars, blind, offer, lead_seat, hand, winners, last,
                   budget, fixedVars, name, seat>>

\* reset() building the new player without passing the score on.
Reset_forgets_score ==
    /\ pc = "reset"
    /\ name' = [s \in Seats |-> name[s]]
    /\ seat' = [s \in Seats |-> seat[s]]
    /\ score' = [s \in Seats |-> 0]
    /\ dealt_cards' = [s \in Seats |-> <<>>]
    /\ bury' = [s \in Seats |-> NoBury]
    /\ tricks' = [s \in Seats |-> <<>>]
    /\ partner_seat' = [s \in Seats |-> NoSeat]
    /\ partner_is_known' = [s \in Seats |-> FALSE]
    /\ play_strategy' = [s \in Seats |-> PlayStrategy]
    /\ hand_no' = hand_no + 1
    /\ pc' = NextHandPc
    /\ UNCHANGED <<error, blind, offer, lead_seat, hand, outcome, delta, winners,
                   last, budget, fixedVars>>

\* players[j] = players[j].reset() for every seat: fresh players that keep
\* name, seat and score; then the next hand.
Reset ==
    /\ pc = "reset"
    /\ name' = [s \in Seats |-> name[s]]
    /\ seat' = [s \in Seats |-> seat[s]]
    /\ score' = [s \in Seats |-> score[s]]
    /\ dealt_cards' = [s \in Seats |-> <<>>]
    /\ bury' = [s \in Seats |-> NoBury]
    /\ tricks' = [s \in Seats |-> <<>>]
    /\ partner_seat' = [s \in Seats |-> NoSeat]
    /\ partner_is_known' = [s \in Seats |-> FALSE]
    /\ play_strategy' = [s \in Seats |-> PlayStrategy]
    /\ hand_no' = hand_no + 1
    /\ pc' = NextHandPc
    /\ UNCHANGED <<error, blind, offer, lead_seat, hand, outcome, delta, winners,
                   last, budget, fixedVars>>

Next ==
    \/ Deal
    \/ Decline
    \/ AllPass
    \/ Accept
    \/ Pick
    \/ Play
    \/ PlayFails
    \/ Score
    \/ Reset

Spec == Init /\ [][Next]_vars

SpecSession == InitSession /\ [][Next]_vars

SpecRoles == InitRoles /\ [][Next]_vars

\* play_game with spectate unset: a HumanPlayer on seat 0, four DefaultPlayers.
InitHuman == InitGame(1, MaxDeviations) /\ NoProbe /\ spectate = FALSE /\ shuffles = Packs

\* The steps of a session with a HumanPlayer: no hand in which a seat picks
\* gets past the HumanPlayer's first card, so nothing is scored or reset.
NextHuman ==
    \/ Deal
    \/ Decline
    \/ AllPass
    \/ Accept
    \/ Pick
    \/ HumanPick
    \/ Play
    \/ PlayFails
    \/ HumanPlay

SpecHuman == InitHuman /\ [][NextHuman]_vars

\* ------------------------------------------------------------------------
\* Sessions that stop at the pick, over many orders of the pack
\* ------------------------------------------------------------------------

\* Number of hands of the sessions SpecPick explores: one per dealer seat.
DealerSeats == 5

\* The pack cut at card k: cards k+1..32 followed by cards 1..k.
Cut(pack, k) == [i \in 1..Len(pack) |-> pack[((i - 1 + k) % Len(pack)) + 1]]

\* Every cut of every pack above: orders random.shuffle can leave as well.
CutPacks == UNION {{Cut(pack, k) : k \in 0..(Len(pack) - 1)} : pack \in Packs \cup RolePacks}

InitPick == InitGame(DealerSeats, 0) /\ NoProbe /\ FiveDefaultPlayers /\ shuffles = CutPacks

\* The steps of play_game up to the return of picker.pick and the
\* update_picker_choice calls; a hand in which all seats pass is skipped.
NextPick ==
    \/ Deal
    \/ Decline
    \/ AllPass
    \/ Accept
    \/ Pick

SpecPick == InitPick /\ [][NextPick]_vars

\* One hand of play_game played to its end with every seat's first choice of
\* card, over every cut of every pack: the hands the replays of data.py are
\* compared on.
InitReplay == InitGame(1, 0) /\ NoProbe /\ FiveDefaultPlayers /\ shuffles = CutPacks

SpecReplay == InitReplay /\ [][Next]_vars

\* ------------------------------------------------------------------------
\* Tricks built by Trick.play alone, for the winner resolution
\* ------------------------------------------------------------------------

\* The cards the_trick is built from: trumps of equal and of different power,
\* fail cards of two suits, and masked cards hiding a high and a low card.
TrickCards ==
    { Plain(CLUB, QUEEN), Plain(SPADE, QUEEN), Plain(DIAMOND, JACK), Plain(DIAMOND, SEVEN),
      Plain(CLUB, ACE), Plain(CLUB, TEN), Plain(CLUB, SEVEN), Plain(HEART, ACE),
      Card(DIAMOND, QUEEN, CLUB), Card(HEART, SEVEN, CLUB) }

\* The called cards the_trick is resolved with (None: the picker is alone).
CalledCards == {None, Plain(CLUB, TEN), Plain(CLUB, ACE), Plain(HEART, ACE)}

InitTrick ==
    /\ InitGame(0, 0)
    /\ the_trick = <<>>
    /\ the_called_card \in CalledCards
    /\ shuffles = {}
    /\ FiveDefaultPlayers
    /\ the_hand = NoHand
    /\ call = NoCall
    /\ the_card = None

\* the_trick = the_trick.play(card), the call returning a Trick.
TrickPlayCard ==
    /\ \E card \in TrickCards :
          /\ TrickPlayOk(the_trick, card)
          /\ the_trick' = TrickPlay(the_trick, card)
    /\ UNCHANGED <<number_of_hand, hand_no, pc, error, name, seat, score, playerVars, blind, offer,
                   lead_seat, hand, outcome, delta, winners, last, budget, the_called_card,
                   shuffles, spectate, the_hand, call, the_card>>

NextTrick == TrickPlayCard

SpecTrick == InitTrick /\ [][NextTrick]_vars

\* ------------------------------------------------------------------------
\* Trick and Hand values built by their constructors and play calls alone
\* ------------------------------------------------------------------------

\* Number of Hand.play calls explored on a Hand after its construction.
MaxProbePlays == 3

\* Five distinct cards that fill a trick, and a sixth card (a masked copy of
\* one of them, a different card).
FullTrick ==
    << Plain(CLUB, SEVEN), Plain(CLUB, ACE), Plain(HEART, TEN), Plain(DIAMOND, QUEEN),
       Plain(SPADE, JACK) >>

ProbeCards == Range(FullTrick) \cup {Card(SPADE, JACK, HEART)}

OpenTrick == SubSeq(FullTrick, 1, 4)

Repeat(t, n) == [i \in 1..n |-> t]

\* The trick lists the Hand constructor is called with: none, one open or
\* full trick, five full tricks and an open one, six and seven full tricks.
ProbeTrickLists ==
    { <<>>, <<OpenTrick>>, <<FullTrick>>, Repeat(FullTrick, 5) \o <<OpenTrick>>,
      Repeat(FullTrick, 6), Repeat(FullTrick, 7) }

ProbeStyles == {ALONE, CALLED_ACE, UNDER}

ProbeCalledCards == {None, Plain(HEART, ACE)}

InitValues == InitGame(0, 0) /\ NoProbe /\ FiveDefaultPlayers /\ shuffles = {}

\* the_trick = the_trick.play(card): on ValueError the_trick keeps its value.
TrickPlayCall ==
    /\ the_hand = NoHand
    /\ call.op # "Hand"
    /\ \E card \in ProbeCards :
          LET ok == TrickPlayOk(the_trick, card)
          IN  /\ the_trick' = IF ok THEN TrickPlay(the_trick, card) ELSE the_trick
              /\ call' = [op |-> "Trick.play", n |-> 0, ok |-> ok, card |-> card,
                          receiver |-> the_trick,
                          after |-> TrickAfterPlay(the_trick, card)]
    /\ UNCHANGED <<number_of_hand, hand_no, pc, error, name, seat, score, playerVars, blind, offer,
                   lead_seat, hand, outcome, delta, winners, last, budget, the_called_card,
                   shuffles, spectate, the_hand, the_card>>

\* the_hand = Hand(0, 1, pick_style, called_card, tricks): on ValueError
\* the_hand keeps its value.
HandNew ==
    /\ the_trick = <<>>
    /\ \E style \in ProbeStyles, called \in ProbeCalledCards, ts \in ProbeTrickLists :
          LET ok == HandInitOk(style, called, ts)
          IN  /\ the_hand' = IF ok THEN Hand(0, 1, style, called, ts) ELSE the_hand
              /\ call' = [op |-> "Hand", n |-> IF ok THEN 0 ELSE call.n, ok |-> ok,
                          pick_style |-> style, called_card |-> called, tricks |-> ts]
    /\ UNCHANGED <<number_of_hand, hand_no, pc, error, name, seat, score, playerVars, blind, offer,
                   lead_seat, hand, outcome, delta, winners, last, budget, the_trick,
                   the_called_card, shuffles, spectate, the_card>>

\* the_hand = the_hand.play(card): on ValueError the_hand keeps its value.
HandPlayCall ==
    /\ the_hand # NoHand
    /\ call.n < MaxProbePlays
    /\ \E card \in ProbeCards :
          LET ok == HandPlayOk(the_hand, card)
          IN  /\ the_hand' = IF ok THEN HandPlay(the_hand, card) ELSE the_hand
              /\ call' = [op |-> "Hand.play", n |-> call.n + 1, ok |-> ok, card |-> card,
                          receiver |-> the_hand,
                          after |-> HandAfterPlay(the_hand, card),
                          shared |-> SharedHandAfterPlay(the_hand, card)]
    /\ UNCHANGED <<number_of_hand, hand_no, pc, error, name, seat, score, playerVars, blind, offer,
                   lead_seat, hand, outcome, delta, winners, last, budget, the_trick,
                   the_called_card, shuffles, spectate, the_card>>

NextValues ==
    \/ TrickPlayCall
    \/ HandNew
    \/ HandPlayCall

SpecValues == InitValues /\ [][NextValues]_vars

\* ------------------------------------------------------------------------
\* Cards, compared and revealed
\* ------------------------------------------------------------------------

\* Number of Card.reveal calls explored on a card, each on the result of the
\* one before.
MaxReveals == 2

\* Every Card(_suit, power, _mask): 4 suits, 8 powers, no mask or one of 4.
AllCards == {Card(s, p, m) : s \in Suit, p \in Power, m \in Suit \cup {NoMask}}

InitCards ==
    /\ InitGame(0, 0)
    /\ the_trick = <<>>
    /\ the_called_card = None
    /\ the_hand = NoHand
    /\ call = NoCall
    /\ the_card \in AllCards
    /\ FiveDefaultPlayers
    /\ shuffles = {}

\* the_card = the_card.reveal
CardReveal ==
    /\ call.n < MaxReveals
    /\ the_card' = reveal(the_card)
    /\ call' = [op |-> "reveal", n |-> call.n + 1, card |-> the_card]
    /\ UNCHANGED <<number_of_hand, hand_no, pc, error, name, seat, score, playerVars, blind, offer,
                   lead_seat, hand, outcome, delta, winners, last, budget, the_trick,
                   the_called_card, shuffles, spectate, the_hand>>

\* the_card < other (Card.__lt__): self.strength < other.strength
CardLess ==
    /\ \E other \in AllCards :
          call' = [op |-> "<", n |-> call.n, card |-> the_card, other |-> other,
                   result |-> strength(the_card) < strength(other)]
    /\ UNCHANGED <<number_of_hand, hand_no, pc, error, name, seat, score, playerVars, blind, offer,
                   lead_seat, hand, outcome, delta, winners, last, budget, the_trick,
                   the_called_card, shuffles, spectate, the_hand, the_card>>

NextCards ==
    \/ CardReveal
    \/ CardLess

SpecCards == InitCards /\ [][NextCards]_vars

\* ------------------------------------------------------------------------
\* Tricks handed to Player.take
\* ------------------------------------------------------------------------

\* Number of Player.take calls explored on a player.
MaxTakes == 2

\* Full tricks of unmasked cards that share no card, a full trick holding a
\* masked card, and every order the five cards of each can be played in by
\* seats that follow one another.
HighTrick ==
    << Plain(HEART, ACE), Plain(HEART, KING), Plain(DIAMOND, TEN), Plain(CLUB, EIGHT),
       Plain(DIAMOND, JACK) >>

LowTrick ==
    << Plain(DIAMOND, SEVEN), Plain(DIAMOND, EIGHT), Plain(SPADE, NINE), Plain(SPADE, KING),
       Plain(HEART, SEVEN) >>

MaskedTrick ==
    << Plain(SPADE, SEVEN), Card(HEART, QUEEN, SPADE), Plain(SPADE, TEN), Plain(SPADE, ACE),
       Plain(CLUB, KING) >>

\* The tricks take is called with: the full tricks above, a trick of four
\* cards and an empty trick.
TakeTricks ==
    UNION {{Cut(t, k) : k \in 0..4} : t \in {FullTrick, HighTrick, LowTrick, MaskedTrick}}
      \cup {OpenTrick, <<>>}

\* The cards of the tricks a player has saved.
TakenCards(player_tricks) == UNION {Range(player_tricks[n]) : n \in 1..Len(player_tricks)}

\* The exception Player.take raises for a trick, or NoError: the length
\* assertion, and `card.reveal()` calling the Card that the property reveal
\* has already returned.
TakeError(trick) ==
    IF Len(trick) # 5 THEN "AssertionError"
    ELSE IF \E i \in 1..Len(trick) : is_hidden(trick[i]) THEN "TypeError"
    ELSE NoError

InitTake == InitGame(0, 0) /\ NoProbe /\ FiveDefaultPlayers /\ shuffles = {}

\* players[0].take(trick) returning: the trick joins the player's tricks.
Take ==
    /\ error = NoError
    /\ call.n < MaxTakes
    /\ \E trick \in TakeTricks :
          /\ Range(trick) \cap TakenCards(tricks[0]) = {}
          /\ TakeError(trick) = NoError
          /\ tricks' = [tricks EXCEPT ![0] = Append(@, trick)]
          /\ call' = [op |-> "take", n |-> call.n + 1, trick |-> trick,
                      points |-> points_taken(tricks[0], bury[0])]
    /\ UNCHANGED <<number_of_hand, hand_no, pc, error, name, seat, score, dealt_cards, bury,
                   partner_seat, partner_is_known, play_strategy, blind, offer, lead_seat,
                   hand, outcome, delta, winners, last, budget, the_trick, the_called_card,
                   shuffles, spectate, the_hand, the_card>>

\* players[0].take(trick) raising: nothing is saved.
TakeFails ==
    /\ error = NoError
    /\ call.n < MaxTakes
    /\ \E trick \in TakeTricks :
          /\ Range(trick) \cap TakenCards(tricks[0]) = {}
          /\ TakeError(trick) # NoError
          /\ error' = TakeError(trick)
          /\ call' = [op |-> "take", n |-> call.n + 1, trick |-> trick,
                      points |-> points_taken(tricks[0], bury[0])]
    /\ UNCHANGED <<number_of_hand, hand_no, pc, name, seat, score, playerVars, blind, offer,
                   lead_seat, hand, outcome, delta, winners, last, budget, the_trick,
                   the_called_card, shuffles, spectate, the_hand, the_card>>

NextTake ==
    \/ Take
    \/ TakeFails

SpecTake == InitTake /\ [][NextTake]_vars

\* ------------------------------------------------------------------------
\* Properties
\* ------------------------------------------------------------------------

SumSeats(f) == f[0] + f[1] + f[2] + f[3] + f[4]

\* Point tallies on both sides of every band of the scoring table.
PointTallies == {0, 30, 31, 60, 61, 90, 91, 120}

\* The picker and the seat that was dealt the called card.
PickerSide == {hand.picker_seat} \cup {s \in Seats : partner_seat[s] = s}

\* The tricks (by number) that play_trick gave to the picker's side.
SideTricks == {n \in 1..Len(winners) : winners[n] \in PickerSide}

RECURSIVE TruePoints(_)
TruePoints(cs) == IF cs = <<>> THEN 0 ELSE points(reveal(Head(cs))) + TruePoints(Tail(cs))

RECURSIVE SumTrueTrickPoints(_)
SumTrueTrickPoints(ns) ==
    IF ns = {} THEN 0
    ELSE LET n == CHOOSE x \in ns : TRUE
         IN  TruePoints(hand.tricks[n]) + SumTrueTrickPoints(ns \ {n})

\* The card points the picker's side took: its tricks and the picker's bury.
SidePoints ==
    SumTrueTrickPoints(SideTricks)
      + (IF bury[hand.picker_seat] # NoBury THEN SumPoints(bury[hand.picker_seat]) ELSE 0)

\* The outcome the scoring table gives to a point total.
Band(p) ==
    IF p >= 91 THEN WIN_NO_SCHNEIDER
    ELSE IF p >= 61 THEN WIN_WITH_SCHNEIDER
    ELSE IF p >= 31 THEN LOSE_WITH_SCHNEIDER
    ELSE LOSE_NO_SCHNEIDER

\* C1: the deltas update_scores applies to the five seats sum to 0, for the
\* hand that was played and for every point tally it could have been scored
\* with, so the five scores sum to 0 at every point of a session.
C1_ScoresSumToZero ==
    /\ SumSeats(score) = 0
    /\ pc = "reset" => SumSeats(delta) = 0
    /\ pc \in {"score", "reset"} =>
          \A p \in PointTallies :
              SumSeats(update_scores(hand, [s \in Seats |-> p]).delta) = 0

\* C1 witness: a partnered hand has been scored after an earlier scored hand.
C1_Witness ==
    /\ pc = "reset"
    /\ hand_no >= 1
    /\ hand.pick_style # ALONE
    /\ delta[hand.picker_seat] # 0
    /\ score # delta

\* C2: when the picker's side took between 1 and 5 tricks, the outcome is
\* the band of the card points that side took.
C2_OutcomeIsBandOfPointsTaken ==
    (pc = "reset" /\ Cardinality(SideTricks) \in 1..5) => outcome = Band(SidePoints)

\* C3: six tricks for the picker's side give WinAllTricks and no trick gives
\* LoseNoTricks, with the deltas of the table, whatever the point tallies.
C3_TrickCountsFirst ==
    pc = "reset" =>
        LET n == Cardinality(SideTricks)
            sign == IF n = 6 THEN 1 ELSE -1
            alone == hand.pick_style = ALONE
        IN  n \in {0, 6} =>
              /\ outcome = sign * 12
              /\ \A s \in Seats :
                    delta[s] = IF s = hand.picker_seat THEN (IF alone THEN sign * 12 ELSE sign * 6)
                               ELSE IF s \in PickerSide THEN sign * 3
                               ELSE -(sign * 3)
              /\ \A p \in PointTallies :
                    update_scores(hand, [s \in Seats |-> p]).outcome = sign * 12

\* C3 witness: an Alone picker took all six tricks with 4 points in the bury.
C3_Witness ==
    /\ pc = "reset"
    /\ hand.pick_style = ALONE
    /\ Cardinality(SideTricks) = 6
    /\ outcome = WIN_ALL_TRICKS
    /\ points_taken(tricks[hand.picker_seat], bury[hand.picker_seat]) <= 30

HasTrump(trick) == \E i \in 1..Len(trick) : is_trump(trick[i])

\* The position (1-based) winning_card_idx gives for the_trick.
TheWinner == winning_card_idx(the_trick, the_called_card) + 1

\* C4: in a trick with a trump the winner is a trump of maximal strength
\* among the trumps, whatever fail cards and called card there are.
C4_TrumpDominant ==
    (the_trick # <<>> /\ HasTrump(the_trick)) =>
        /\ TheWinner \in 1..Len(the_trick)
        /\ is_trump(the_trick[TheWinner])
        /\ \A j \in 1..Len(the_trick) :
              is_trump(the_trick[j]) => strength(the_trick[j]) <= strength(the_trick[TheWinner])

\* C4 witness: the called card is led in its own suit, a lower-ranked trump
\* is in the trick, and the trump wins.
C4_Witness ==
    /\ Len(the_trick) = 5
    /\ the_called_card = Plain(CLUB, ACE)
    /\ the_trick[1] = the_called_card
    /\ Cardinality({j \in 1..5 : is_trump(the_trick[j])}) = 1
    /\ the_trick[TheWinner] = Plain(DIAMOND, SEVEN)

CalledCardLeads(trick, called_card) ==
    called_card \in Range(trick) /\ suit(trick[1]) = suit(called_card)

\* C5: without a trump, the called card wins every trick it is in that is
\* led in its suit.
C5_CalledCardOverride ==
    (the_trick # <<>> /\ ~HasTrump(the_trick) /\ CalledCardLeads(the_trick, the_called_card)) =>
        the_trick[TheWinner] = the_called_card

\* C5 witness: the called Ten of Clubs is led, the Ace of Clubs follows, and
\* the Ten wins.
C5_Witness ==
    /\ the_called_card = Plain(CLUB, TEN)
    /\ the_trick = <<Plain(CLUB, TEN), Plain(CLUB, ACE)>>
    /\ TheWinner = 1

\* C6: without a trump and without the override, the winner is a fail card
\* of the lead suit of maximal strength, a masked card being the weakest.
C6_HighestFailOfLeadSuit ==
    (the_trick # <<>> /\ ~HasTrump(the_trick) /\ ~CalledCardLeads(the_trick, the_called_card)) =>
        /\ is_fail(the_trick[TheWinner])
        /\ suit(the_trick[TheWinner]) = suit(the_trick[1])
        /\ \A j \in 1..Len(the_trick) :
              (is_fail(the_trick[j]) /\ suit(the_trick[j]) = suit(the_trick[1])) =>
                  strength(the_trick[j]) <= strength(the_trick[TheWinner])

\* The last Player.play call was made by a player with this strategy.
LastBy(strategy) == last.seat # NoSeat /\ play_strategy[last.seat] = strategy

\* The trick the last card was played to, and whether that card led it.
LastPlayTrick == LastTrick(hand)

LastWasLead == Len(LastPlayTrick) = 1

\* The tricks of the hand before the one the last card was played to.
EarlierTricks == SubSeq(hand.tricks, 1, Len(hand.tricks) - 1)

CalledSuitLedEarlier ==
    \E n \in 1..Len(EarlierTricks) : IsCalledSuitFail(EarlierTricks[n][1], hand)

\* The last player held a card that follows the lead of the trick.
LastCouldFollow ==
    LET lead_card == LastPlayTrick[1]
    IN  \E c \in Range(last.cards) :
            IF is_trump(lead_card) THEN is_trump(c)
            ELSE is_fail(c) /\ suit(c) = suit(lead_card)

\* C7 as claimed: the partner plays the called card only after the called
\* suit was led in an earlier trick, or as its only remaining card.
C7_CalledCardOnlyAfterEarlierLead ==
    (LastBy(PartnerStrategy) /\ last.card = hand.called_card) =>
        CalledSuitLedEarlier \/ Len(last.cards) = 1

\* C7 as amended: a partner that holds the called card among several cards
\* does not play it to a trick that is not led with a fail card of the
\* called suit; it plays it only to a trick led in the called suit (led
\* with the called card itself when the partner leads), or as its only
\* remaining card.
C7_CalledCardOnlyWhenSuitLed ==
    (LastBy(PartnerStrategy) /\ hand.called_card \in Range(last.cards)
        /\ Len(last.cards) > 1 /\ ~IsCalledSuitFail(LastPlayTrick[1], hand)) =>
        last.card # hand.called_card

\* C7 witness: the partner, unable to follow the lead and holding the called
\* card among several cards, discarded another card.
C7_Witness ==
    /\ LastBy(PartnerStrategy)
    /\ ~LastWasLead
    /\ ~LastCouldFollow
    /\ hand.called_card \in Range(last.cards)
    /\ Len(last.cards) > 1
    /\ last.card # hand.called_card

\* C8 as claimed: a partner that leads while holding the called card, the
\* called suit not having been led in an earlier trick, leads the called card.
C8_PartnerLeadsCalledCard ==
    (LastBy(PartnerStrategy) /\ LastWasLead /\ hand.called_card \in Range(last.cards)
        /\ ~CalledSuitLedEarlier) =>
        last.card = hand.called_card

\* C8 as amended: a partner that holds the called card and leads a fail card
\* of the called suit leads the called card.
C8_PartnerLeadsCalledSuitWithCalledCard ==
    (LastBy(PartnerStrategy) /\ LastWasLead /\ hand.called_card \in Range(last.cards)
        /\ IsCalledSuitFail(last.card, hand)) =>
        last.card = hand.called_card

\* C8 witness: the partner led the called card while holding another fail
\* card of the called suit.
C8_Witness ==
    /\ LastBy(PartnerStrategy)
    /\ LastWasLead
    /\ last.card = hand.called_card
    /\ \E c \in Range(last.cards) : c # hand.called_card /\ IsCalledSuitFail(c, hand)

\* The partner, holding the called card, follows a lead of the called suit
\* with the called card.
PartnerFollowsCalledSuitWithCalledCard ==
    (LastBy(PartnerStrategy) /\ ~LastWasLead /\ hand.called_card \in Range(last.cards)
        /\ IsCalledSuitFail(LastPlayTrick[1], hand)) =>
        last.card = hand.called_card

\* C9 as claimed: the partner follows a lead of the called suit with the
\* called card, and while it holds the called card it plays no other fail
\* card of the called suit.
C9_NoOtherCalledSuitCardFirst ==
    /\ PartnerFollowsCalledSuitWithCalledCard
    /\ (LastBy(PartnerStrategy) /\ hand.called_card \in Range(last.cards)
          /\ IsCalledSuitFail(last.card, hand)) =>
          last.card = hand.called_card

\* C9 as amended: the partner follows a lead of the called suit with the
\* called card, and while it holds the called card it plays another fail
\* card of the called suit only as a discard, following a lead it holds no
\* card to follow with.
C9_OtherCalledSuitCardOnlyDiscarded ==
    /\ PartnerFollowsCalledSuitWithCalledCard
    /\ (LastBy(PartnerStrategy) /\ hand.called_card \in Range(last.cards)
          /\ IsCalledSuitFail(last.card, hand) /\ last.card # hand.called_card) =>
          (~LastWasLead /\ ~IsCalledSuitFail(LastPlayTrick[1], hand) /\ ~LastCouldFollow)

\* C9 witness: the partner, holding the called card and another fail card of
\* the called suit, followed a lead of the called suit with the called card.
C9_Witness ==
    /\ LastBy(PartnerStrategy)
    /\ ~LastWasLead
    /\ IsCalledSuitFail(LastPlayTrick[1], hand)
    /\ last.card = hand.called_card
    /\ \E c \in Range(last.cards) : c # hand.called_card /\ IsCalledSuitFail(c, hand)

\* C10: while no trick of the hand has been led with a fail card of the
\* called suit, the called-ace picker holds a fail card of the called suit,
\* unless it has played its last card.
C10_PickerKeepsCalledSuit ==
    (pc \in {"play", "score"} /\ play_strategy[hand.picker_seat] = CalledAcePickerStrategy
        /\ ~called_has_been_led(hand)) =>
        \/ \E c \in Range(dealt_cards[hand.picker_seat]) : IsCalledSuitFail(c, hand)
        \/ dealt_cards[hand.picker_seat] = <<>>

\* C10 witness: the called-ace picker, unable to follow the lead and holding
\* a single fail card of the called suit among several cards, discarded
\* another card, the called suit not having been led.
C10_Witness ==
    /\ LastBy(CalledAcePickerStrategy)
    /\ ~LastWasLead
    /\ ~LastCouldFollow
    /\ ~called_has_been_led(hand)
    /\ Len(last.cards) > 1
    /\ Cardinality({c \in Range(last.cards) : IsCalledSuitFail(c, hand)}) = 1
    /\ ~IsCalledSuitFail(last.card, hand)

\* The Ace of the called suit, the card the called-ten picker is bound to.
CalledSuitAce == Plain(suit(hand.called_card), ACE)

\* C11: the called-ten picker holds the Ace of the called suit while no trick
\* has been led with a fail card of the called suit (unless it has played its
\* last card); it does not play the Ace to a trick led otherwise unless it is
\* its only card, it follows a lead of the called suit with the Ace, and when
\* it leads a fail card of the called suit while holding the Ace it leads the
\* Ace.
C11_TenPickerKeepsAndPlaysAce ==
    /\ (pc \in {"play", "score"} /\ play_strategy[hand.picker_seat] = CalledTenPickerStrategy
          /\ ~called_has_been_led(hand)) =>
          \/ CalledSuitAce \in Range(dealt_cards[hand.picker_seat])
          \/ dealt_cards[hand.picker_seat] = <<>>
    /\ (LastBy(CalledTenPickerStrategy) /\ CalledSuitAce \in Range(last.cards)) =>
          /\ (Len(last.cards) > 1 /\ ~IsCalledSuitFail(LastPlayTrick[1], hand)) =>
                last.card # CalledSuitAce
          /\ (~LastWasLead /\ IsCalledSuitFail(LastPlayTrick[1], hand)) =>
                last.card = CalledSuitAce
          /\ (LastWasLead /\ IsCalledSuitFail(last.card, hand)) =>
                last.card = CalledSuitAce

\* C11 witness: the called-ten picker, holding the Ace and another fail card
\* of the called suit, followed a lead of the called suit with the Ace.
C11_Witness ==
    /\ LastBy(CalledTenPickerStrategy)
    /\ ~LastWasLead
    /\ IsCalledSuitFail(LastPlayTrick[1], hand)
    /\ last.card = CalledSuitAce
    /\ \E c \in Range(last.cards) : c # CalledSuitAce /\ IsCalledSuitFail(c, hand)

\* The last player held a masked card (the under-card of the under picker).
LastHeldUnderCard == \E c \in Range(last.cards) : is_hidden(c)

\* C12: the under picker, holding the masked under-card among several cards,
\* does not play it when following a lead that is not a fail card of the
\* called suit; and holding it when following the first trick led with a
\* fail card of the called suit, it plays it.
C12_UnderPickerKeepsThenPlaysUnderCard ==
    (LastBy(CalledUnderPickerStrategy) /\ LastHeldUnderCard /\ ~LastWasLead) =>
        /\ (Len(last.cards) > 1 /\ ~IsCalledSuitFail(LastPlayTrick[1], hand)) =>
              ~is_hidden(last.card)
        /\ (IsCalledSuitFail(LastPlayTrick[1], hand) /\ ~CalledSuitLedEarlier) =>
              is_hidden(last.card)

\* C12 witness: the under picker, holding the under-card among several cards,
\* followed the first lead of the called suit with the under-card.
C12_Witness ==
    /\ LastBy(CalledUnderPickerStrategy)
    /\ ~LastWasLead
    /\ Len(last.cards) > 1
    /\ IsCalledSuitFail(LastPlayTrick[1], hand)
    /\ ~CalledSuitLedEarlier
    /\ is_hidden(last.card)

\* The card follows the lead: a trump on a trump lead, a fail card of the
\* lead's suit on a fail lead.
FollowsLead(c, lead_card) ==
    IF is_trump(lead_card) THEN is_trump(c)
    ELSE is_fail(c) /\ suit(c) = suit(lead_card)

\* C13: a player of any strategy that follows in a trick and holds a card
\* that follows the lead plays a card that follows the lead.
C13_FollowsSuitIfAble ==
    (last.seat # NoSeat /\ ~LastWasLead /\ LastCouldFollow) =>
        FollowsLead(last.card, LastPlayTrick[1])

\* C13 witness: a player holding a card that follows the lead and a card that
\* does not has followed the lead.
C13_Witness ==
    /\ last.seat # NoSeat
    /\ ~LastWasLead
    /\ \E c \in Range(last.cards) : ~FollowsLead(c, LastPlayTrick[1])
    /\ \E c \in Range(last.cards) : c # last.card /\ FollowsLead(c, LastPlayTrick[1])
    /\ FollowsLead(last.card, LastPlayTrick[1])

\* A step is a Player.play call: `last` takes the call's seat, card and cards.
IsPlayCall == last' # last /\ last'.seat # NoSeat

\* C14: every Player.play call returns the hand it was given with one more
\* card, a card the player held, and removes that card and no other from the
\* player's held cards.
C14_PlayMovesOneHeldCard ==
    [][IsPlayCall =>
          /\ last'.card \in Range(dealt_cards[last'.seat])
          /\ dealt_cards' = [dealt_cards EXCEPT ![last'.seat] = Remove(@, last'.card)]
          /\ hand' = HandPlay(hand, last'.card)]_vars

\* The strategy the rule gives seat s for the hand h and the cards it holds.
StrategyByRule(s, h, cards) ==
    IF h.called_card \in Range(cards) THEN PartnerStrategy
    ELSE IF s # h.picker_seat \/ h.pick_style = ALONE THEN OppositionStrategy
    ELSE IF h.pick_style = UNDER THEN CalledUnderPickerStrategy
    ELSE IF h.pick_style = CALLED_ACE THEN CalledAcePickerStrategy
    ELSE CalledTenPickerStrategy

\* C15: the pick gives every seat the strategy of the rule (Partner for the
\* holder of the called card, else the picker's strategy by pick style, else
\* Opposition); in a hand that is not Alone exactly one seat is the partner
\* and it is not the picker; and no strategy changes while the hand is played
\* and scored.
C15_StrategyAssignedOnce ==
    [][/\ (pc = "pick" /\ pc' = "play") =>
             /\ \A s \in Seats :
                   play_strategy'[s] = StrategyByRule(s, hand', dealt_cards'[s])
             /\ hand'.pick_style # ALONE =>
                   /\ Cardinality({s \in Seats : play_strategy'[s] = PartnerStrategy}) = 1
                   /\ play_strategy'[hand'.picker_seat] # PartnerStrategy
       /\ pc \in {"play", "score"} => play_strategy' = play_strategy]_vars

\* C15 witness: a hand with a called-ace picker, one partner and three
\* opposition seats has been played to its end.
C15_Witness ==
    /\ pc = "score"
    /\ play_strategy[hand.picker_seat] = CalledAcePickerStrategy
    /\ Cardinality({s \in Seats : play_strategy[s] = PartnerStrategy}) = 1
    /\ Cardinality({s \in Seats : play_strategy[s] = OppositionStrategy}) = 3

\* C16: a trick built by Trick.play calls from the empty trick holds at most
\* five cards, all distinct; a play call fails exactly when the card is in
\* the trick already or the trick holds five cards, and otherwise appends the
\* card; and is_full holds exactly for five cards.
C16_TrickPlayBounds ==
    /\ Len(the_trick) <= 5
    /\ \A i, j \in 1..Len(the_trick) : the_trick[i] = the_trick[j] => i = j
    /\ is_full(the_trick) <=> Len(the_trick) = 5
    /\ call.op = "Trick.play" =>
          /\ call.ok <=> (call.card \notin Range(call.receiver) /\ Len(call.receiver) < 5)
          /\ the_trick = IF call.ok THEN call.receiver \o <<call.card>> ELSE call.receiver

\* C16 witness: a play call on an open trick failed for a card the trick holds.
C16_Witness ==
    /\ call.op = "Trick.play"
    /\ ~call.ok
    /\ Len(call.receiver) < 5
    /\ call.card \in Range(call.receiver)

\* C17: a successful Hand.play call appends the card to the last trick when
\* that trick exists and is not full, and opens a new trick otherwise; every
\* trick of the_hand but the last holds five cards.
C17_NewTrickOnlyAfterFullTrick ==
    /\ (call.op = "Hand.play" /\ call.ok) =>
          LET ts == call.receiver.tricks
          IN  the_hand.tricks =
                 IF Len(ts) > 0 /\ ~is_full(ts[Len(ts)])
                 THEN [ts EXCEPT ![Len(ts)] = @ \o <<call.card>>]
                 ELSE ts \o << <<call.card>> >>
    /\ the_hand # NoHand =>
          \A n \in 1..(Len(the_hand.tricks) - 1) : Len(the_hand.tricks[n]) = 5

\* The hand holds six tricks of five cards.
IsComplete(h) == Len(h.tricks) = 6 /\ \A n \in 1..6 : is_full(h.tricks[n])

\* C18: a Hand.play call on a hand of six full tricks fails and yields no
\* hand, and the_hand never holds more than six tricks.
C18_SixTricksAtMost ==
    /\ the_hand # NoHand => Len(the_hand.tricks) <= 6
    /\ (call.op = "Hand.play" /\ IsComplete(call.receiver)) =>
          ~call.ok /\ the_hand = call.receiver

\* C18 witness: a Hand.play call on a hand of six full tricks has failed.
C18_Witness ==
    /\ call.op = "Hand.play"
    /\ IsComplete(call.receiver)
    /\ ~call.ok

\* C19: after a Trick.play or Hand.play call, returning or failing, the
\* receiver is what it was before the call: the same cards, or the same
\* tricks, dealer seat, picker seat, pick style and called card, whether the
\* equal tricks of the receiving hand are separate Tricks or one.
C19_PlayLeavesReceiver ==
    /\ call.op \in {"Trick.play", "Hand.play"} => call.after = call.receiver
    /\ call.op = "Hand.play" => call.shared = call.receiver

\* C19 witness: a Hand.play call on a hand holding the same trick twice
\* returned a hand whose last trick holds one more card than the receiver's
\* last trick.
C19_Witness ==
    /\ call.op = "Hand.play"
    /\ call.ok
    /\ Len(call.receiver.tricks) > 2
    /\ call.receiver.tricks[1] = call.receiver.tricks[2]
    /\ Len(the_hand.tricks) = Len(call.receiver.tricks)
    /\ the_hand # call.receiver
    /\ call.after = call.receiver
    /\ call.shared = call.receiver

\* C20: the_hand, when present, has pick style Alone exactly when it has no
\* called card; a Hand construction whose pick style is Alone with a called
\* card, or another pick style without one, fails; and the hand a Hand.play
\* call returns has the receiver's pick style and called card.
C20_AloneIffNoCalledCard ==
    /\ the_hand # NoHand =>
          (the_hand.pick_style = ALONE <=> the_hand.called_card = None)
    /\ (call.op = "Hand" /\ ((call.pick_style = ALONE) # (call.called_card = None))) =>
          ~call.ok
    /\ (call.op = "Hand.play" /\ call.ok) =>
          /\ the_hand.pick_style = call.receiver.pick_style
          /\ the_hand.called_card = call.receiver.called_card

\* C20 witness: a hand with a called card has taken a card through Hand.play,
\* and a later construction with Alone and a called card, of at most six
\* tricks, has failed.
C20_Witness ==
    /\ call.op = "Hand"
    /\ ~call.ok
    /\ Len(call.tricks) <= 6
    /\ call.pick_style = ALONE
    /\ call.called_card # None
    /\ the_hand # NoHand
    /\ the_hand.pick_style # ALONE
    /\ the_hand.called_card # None
    /\ the_hand.tricks \notin ProbeTrickLists

\* The seat play_hand had lead trick number n (1-based) of the hand.
LedBy(n) == IF n = 1 THEN (hand.dealer_seat + 1) % 5 ELSE winners[n - 1]

\* The cards of the tricks of the hand.
PlayedCards == UNION {Range(hand.tricks[n]) : n \in 1..Len(hand.tricks)}

\* C21: in a hand played to its end, seat_with_card gives for the card at
\* position i of trick n the seat i places after the seat that led trick n
\* (the seat left of the dealer for the first trick, the winner of the
\* previous trick for a later one), which for the card played last is the
\* seat that played it, and fails for a card of the pack that is in no trick.
C21_SeatWithCardInvertsReplay ==
    (pc \in {"score", "reset"}) =>
        /\ \A n \in 1..6, i \in 1..5 :
              seat_with_card(hand, hand.tricks[n][i]) = (LedBy(n) + (i - 1)) % 5
        /\ \A c \in PiquetCards \ PlayedCards : seat_with_card(hand, c) = -1
        /\ seat_with_card(hand, last.card) = last.seat

\* C21 witness: a hand has been played to its end in which a trick was led by
\* a seat other than the seat left of the dealer, a masked card was played,
\* and two cards of the pack are in no trick.
C21_Witness ==
    /\ pc = "score"
    /\ \E n \in 2..6 : LedBy(n) # (hand.dealer_seat + 1) % 5
    /\ \E c \in PlayedCards : is_hidden(c)
    /\ Cardinality(PiquetCards \ PlayedCards) >= 2

\* The seat the replay of data.py has lead trick number n of the hand.
ReplayLead(n) ==
    IF n = 1 THEN (hand.dealer_seat + 1) % 5 ELSE WinnerSeatOf(hand, n - 1)

\* The numbers of the tricks play_hand found seat s to win.
WonBy(s) == {n \in 1..Len(winners) : winners[n] = s}

\* C22: the card played last, at position i of trick n, was played by the
\* seat i places after the seat play_hand had lead trick n (the seat left of
\* the dealer for the first trick, the winner of the previous trick for a
\* later one); and in a hand played to its end the replay leads every trick
\* from the same seat, the winners play_hand found are those of the replay,
\* and tricks_taken_by_seat gives each seat exactly the tricks it won.
C22_LeadRotatesByWinner ==
    /\ (pc \in {"play", "score", "reset"} /\ last.seat # NoSeat) =>
          last.seat = (LedBy(Len(hand.tricks)) + Len(LastTrick(hand)) - 1) % 5
    /\ pc \in {"score", "reset"} =>
          /\ \A n \in 1..6 : ReplayLead(n) = LedBy(n)
          /\ \A n \in 1..6 : winners[n] = WinnerSeatOf(hand, n)
          /\ \A s \in Seats :
                LET taken == tricks_taken_by_seat(hand, {s})
                IN  /\ Len(taken) = Cardinality(WonBy(s))
                    /\ Range(taken) = {hand.tricks[n] : n \in WonBy(s)}

\* C22 witness: a hand has been played to its end whose tricks were won by at
\* least three seats, one trick being won by a seat that did not lead it.
C22_Witness ==
    /\ pc = "score"
    /\ Len(winners) = 6
    /\ Cardinality(Range(winners)) >= 3
    /\ \E n \in 2..6 : winners[n] # winners[n - 1]
    /\ last.seat = (winners[5] + 4) % 5

\* A step is the pick of play_hand: picker.pick(blind) and what follows it.
PickStep == pc = "pick" /\ pc' = "play"

\* The eight cards the picker chooses from: its six cards and the blind.
PickPool == Range(dealt_cards[under_the_gun]) \cup Range(blind)

\* C23: a pick that returns CalledTen is made from a pool holding the three
\* fail aces; it calls the Ten of a fail suit, a card that is not in the pool;
\* two cards are buried; and the picker keeps the Ace of the called suit.
C23_CalledTenNeedsThreeAces ==
    [][(PickStep /\ hand'.pick_style = CALLED_TEN) =>
          LET called == hand'.called_card
              p == hand'.picker_seat
          IN  /\ p = under_the_gun
              /\ \A s \in fail_suits : Plain(s, ACE) \in PickPool
              /\ called \in {Plain(s, TEN) : s \in fail_suits}
              /\ called \notin PickPool
              /\ bury'[p] # NoBury
              /\ Len(bury'[p]) = 2
              /\ Plain(called.suit, ACE) \in Range(dealt_cards'[p])
              /\ Plain(called.suit, ACE) \notin Range(bury'[p])]_vars

\* C23 witness: a picker that was dealt a fail ten and found the Ace of
\* another suit in the blind has called the Ten of that suit and holds its Ace.
C23_Witness ==
    /\ pc = "play"
    /\ hand.tricks = <<>>
    /\ hand.pick_style = CALLED_TEN
    /\ Plain(hand.called_card.suit, ACE) \in Range(blind)
    /\ Plain(hand.called_card.suit, ACE) \in Range(dealt_cards[hand.picker_seat])
    /\ \E c \in Range(dealt_cards[hand.picker_seat]) \cup Range(bury[hand.picker_seat]) :
          is_fail(c) /\ c.power = TEN

\* C24: a pick that returns CalledAce calls the Ace of a fail suit, a card
\* that is not in the pool; two cards of the pool are buried and the other
\* six are held; and the picker holds a fail card of the called suit.
C24_CalledAceKeepsCalledSuit ==
    [][(PickStep /\ hand'.pick_style = CALLED_ACE) =>
          LET called == hand'.called_card
              p == hand'.picker_seat
          IN  /\ p = under_the_gun
              /\ called \in {Plain(s, ACE) : s \in fail_suits}
              /\ called \notin PickPool
              /\ bury'[p] # NoBury
              /\ Len(bury'[p]) = 2
              /\ Len(dealt_cards'[p]) = 6
              /\ Range(dealt_cards'[p]) \cup Range(bury'[p]) = PickPool
              /\ \E c \in Range(dealt_cards'[p]) : is_fail(c) /\ suit(c) = called.suit]_vars

\* C24 witness: a picker that holds a fail ace has called the Ace of another
\* suit, of which the only fail card of its pool came with the blind, and holds
\* that card.
C24_Witness ==
    /\ pc = "play"
    /\ hand.tricks = <<>>
    /\ hand.pick_style = CALLED_ACE
    /\ LET p == hand.picker_seat
           pool == Range(dealt_cards[p]) \cup Range(bury[p])
       IN  /\ \E c \in pool : is_fail(c) /\ c.power = ACE
           /\ Cardinality({c \in pool : IsCalledSuitFail(c, hand)}) = 1
           /\ \E c \in Range(blind) \cap Range(dealt_cards[p]) : IsCalledSuitFail(c, hand)

\* C25: a pick that returns Under is made from a pool with no fail card, or
\* with the Ace of every fail suit it holds; afterwards the picker holds
\* exactly one masked card, masked as a fail suit, and the called card is the
\* Ace of that suit, a card the picker does not hold.
C25_UnderHoldsOneMaskedCard ==
    [][(PickStep /\ hand'.pick_style = UNDER) =>
          LET called == hand'.called_card
              held == dealt_cards'[hand'.picker_seat]
              fail == {c \in PickPool : is_fail(c)}
              masked == {i \in 1..Len(held) : is_hidden(held[i])}
          IN  /\ fail = {} \/ \A c \in fail : Plain(suit(c), ACE) \in PickPool
              /\ Cardinality(masked) = 1
              /\ \A i \in masked :
                    held[i].mask \in fail_suits /\ called = Plain(held[i].mask, ACE)
              /\ called \notin PickPool
              /\ called \notin Range(held)]_vars

\* A step is play_hand returning None: the last seat declines.
AllPassStep == pc = "offer" /\ pc' \in {"deal", "done"}

\* C26: the pick is offered first to the seat left of the dealer and then to
\* one seat after another, five seats at most; the seat that accepts the
\* offer number i (from 0) is the seat i + 1 places after the dealer, and it
\* is the picker of the hand; when the fifth seat declines the session goes
\* to the next hand with the scores, the last outcome and deltas, and the
\* tricks recorded so far as they were.
C26_FirstTakerPicksElseSkipped ==
    [][/\ (pc = "deal" /\ pc' = "offer") => offer' = 0
       /\ (pc = "offer" /\ pc' = "offer") => offer' = offer + 1 /\ offer' <= 4
       /\ (pc = "offer" /\ pc' = "pick") => offer' = offer
       /\ PickStep =>
             /\ offer' = offer
             /\ hand'.picker_seat = ((hand_no % 5) + 1 + offer) % 5
             /\ hand'.tricks = <<>>
       /\ AllPassStep =>
             /\ offer = 4
             /\ hand_no' = hand_no + 1
             /\ score' = score
             /\ outcome' = outcome
             /\ delta' = delta
             /\ hand' = hand
             /\ winners' = winners
             /\ error' = error]_vars

\* C26 witness: the second hand of a session ended with all five seats
\* declining, the scores of the first hand being in place.
C26_Witness ==
    /\ hand_no = 2
    /\ pc = "done"
    /\ offer = 4
    /\ \A s \in Seats : Len(dealt_cards[s]) = 6 /\ bury[s] = NoBury
    /\ \A s \in Seats : score[s] # 0
    /\ score = delta

\* The seat that is i places left of the dealer of the hand being played.
LeftOfDealer(i) == ((hand_no % 5) + i) % 5

\* The pack is one that deal() has just handed out: six cards to each seat
\* from the dealer's left, the last two to the blind.
DealtFrom(pack) ==
    /\ \A i \in 0..4 :
          Range(dealt_cards[LeftOfDealer(i + 1)]) = {pack[6 * i + k] : k \in 1..6}
    /\ blind = <<pack[31], pack[32]>>

\* C27: every pack is 32 cards, pairwise distinct and unmasked, of 120 points
\* in all; after deal() every seat holds 6 cards and the blind 2, those 32
\* cards are pairwise distinct and are the cards of the pack, and the seat i
\* places left of the dealer holds the i-th six cards of the pack.
C27_DealPartitionsThePack ==
    /\ Cardinality(PiquetCards) = 32
    /\ \A pack \in shuffles :
          /\ Len(pack) = 32
          /\ Range(pack) = PiquetCards
          /\ \A i \in 1..32 : ~is_hidden(pack[i])
          /\ SumPoints(pack) = 120
    /\ pc = "offer" =>
          /\ \A s \in Seats : Len(dealt_cards[s]) = 6 /\ Cardinality(Range(dealt_cards[s])) = 6
          /\ Len(blind) = 2 /\ Cardinality(Range(blind)) = 2
          /\ \A s, t \in Seats : s # t => Range(dealt_cards[s]) \cap Range(dealt_cards[t]) = {}
          /\ \A s \in Seats : Range(dealt_cards[s]) \cap Range(blind) = {}
          /\ UNION {Range(dealt_cards[s]) : s \in Seats} \cup Range(blind) = PiquetCards
          /\ \E pack \in shuffles : DealtFrom(pack)

\* C27 witness: the fourth hand of a session has been dealt by the dealer on
\* seat 3, seat 4 holding the first six cards of the pack and seat 3 the
\* last six before the blind.
C27_Witness ==
    /\ pc = "offer"
    /\ hand_no = 3
    /\ \E pack \in shuffles :
          /\ DealtFrom(pack)
          /\ Range(dealt_cards[4]) = {pack[k] : k \in 1..6}
          /\ Range(dealt_cards[3]) = {pack[k] : k \in 25..30}
          /\ dealt_cards[4] # SubSeq(pack, 1, 6)

Unmasked(c) == c.mask = NoMask

\* Trump by the rule: unmasked, and a Diamond, a Jack or a Queen.
TrumpByRule(c) == Unmasked(c) /\ (c.suit = DIAMOND \/ c.power \in {JACK, QUEEN})

\* C28: is_trump holds for the_card exactly when the rule makes it a trump;
\* and in a comparison of two cards by strength, an unmasked fail card is
\* below every trump and a masked card is below every unmasked card.
C28_TrumpsOutrankFailMaskedWeakest ==
    /\ is_trump(the_card) <=> TrumpByRule(the_card)
    /\ is_fail(the_card) <=> ~TrumpByRule(the_card)
    /\ call.op = "<" =>
          LET a == call.card
              b == call.other
          IN  /\ call.result <=> strength(a) < strength(b)
              /\ (Unmasked(a) /\ ~TrumpByRule(a) /\ TrumpByRule(b)) =>
                    call.result /\ strength(b) > strength(a)
              /\ (TrumpByRule(a) /\ Unmasked(b) /\ ~TrumpByRule(b)) => ~call.result
              /\ (~Unmasked(a) /\ Unmasked(b)) => call.result /\ strength(a) < strength(b)
              /\ (Unmasked(a) /\ ~Unmasked(b)) => ~call.result

\* C28 witness: the Ace of Clubs, the strongest fail card, has been compared
\* with the Seven of Diamonds, the weakest trump, and is below it.
C28_Witness ==
    /\ call.op = "<"
    /\ call.card = Plain(CLUB, ACE)
    /\ call.other = Plain(DIAMOND, SEVEN)
    /\ call.result

\* C29: the card a reveal call returns is unmasked and has the suit and the
\* power the receiver was built with; it is the receiver itself when the
\* receiver is unmasked; and revealing it again returns it unchanged.
C29_RevealIdempotent ==
    call.op = "reveal" =>
        /\ the_card = Card(call.card.suit, call.card.power, NoMask)
        /\ Unmasked(call.card) => the_card = call.card
        /\ reveal(the_card) = the_card
        /\ reveal(reveal(call.card)) = reveal(call.card)

\* C29 witness: a Queen of Diamonds masked as a club, not a trump, has been
\* revealed and is the Queen of Diamonds, a trump.
C29_Witness ==
    /\ call.op = "reveal"
    /\ call.card = Card(DIAMOND, QUEEN, CLUB)
    /\ ~is_trump(call.card)
    /\ the_card = Plain(DIAMOND, QUEEN)
    /\ is_trump(the_card)

\* A step is update_scores(players, result) returning.
ScoreStep == pc = "score" /\ pc' = "reset"

\* A step is the reset of the five players after a scored hand.
ResetStep == pc = "reset" /\ pc' \in {"deal", "done"}

\* The delta the scoring table gives seat s of the hand for the outcome o.
TableDelta(s, o) ==
    IF s = hand.picker_seat THEN (IF hand.pick_style = ALONE THEN o ELSE o \div 2)
    ELSE IF s \in PickerSide THEN o \div 4
    ELSE -(o \div 4)

\* C30: scoring a hand adds to every seat's score the delta the table gives
\* it for the outcome of the hand and leaves names and seats alone; the reset
\* that follows keeps every seat's name, seat and score and leaves it without
\* dealt cards, bury, taken tricks and partner seat, partner_is_known being
\* false; and no other step changes a name, a seat or a score.
C30_ScoresAccumulateResetKeepsIdentity ==
    [][/\ ScoreStep =>
             /\ \A s \in Seats : delta'[s] = TableDelta(s, outcome')
             /\ \A s \in Seats : score'[s] = score[s] + delta'[s]
       /\ ResetStep =>
             /\ score' = score
             /\ \A s \in Seats :
                   /\ dealt_cards'[s] = <<>>
                   /\ bury'[s] = NoBury
                   /\ tricks'[s] = <<>>
                   /\ partner_seat'[s] = NoSeat
                   /\ partner_is_known'[s] = FALSE
       /\ ~ScoreStep => score' = score
       /\ name' = name
       /\ seat' = seat]_vars

\* C30 witness: the players have been reset after the second scored hand of
\* a session, the scores being the sum of two hands' deltas.
C30_Witness ==
    /\ hand_no = 2
    /\ pc = "done"
    /\ \A s \in Seats : dealt_cards[s] = <<>> /\ bury[s] = NoBury
    /\ hand.dealer_seat = 1
    /\ \E s \in Seats : score[s] # delta[s] /\ score[s] # 0 /\ score[s] - delta[s] # 0

\* The hand of play_hand is under way or over: dealt, picked, not yet reset away.
InHand == pc \in {"play", "score", "reset", "crashed"}

\* The seat play_trick had play the card at position i of trick n.
PlayedBy(n, i) == (LedBy(n) + (i - 1)) % 5

\* The positions <<n, i>> of the hand's tricks that hold a card.
Positions ==
    {p \in (1..Len(hand.tricks)) \X (1..5) : p[2] <= Len(hand.tricks[p[1]])}

\* The positions at which the called card lies.
CalledAt == {p \in Positions : hand.tricks[p[1]][p[2]] = hand.called_card}

\* Seat s played a card after position p.
PlayedAfter(s, p) ==
    \E q \in Positions :
        /\ q[1] > p[1] \/ (q[1] = p[1] /\ q[2] > p[2])
        /\ PlayedBy(q[1], q[2]) = s

\* C31 as claimed: every player's partner_is_known flag is true once the
\* called card lies in a trick and the player has played to a later trick,
\* and no flag is true while the called card lies in no trick of the hand.
C31_EveryFlagFlipsOnceCalledCardPlayed ==
    /\ \A s \in Seats : partner_is_known[s] => (InHand /\ CalledAt # {})
    /\ (pc \in {"play", "score"} /\ hand.pick_style # ALONE) =>
          \A p \in CalledAt :
              (\E m \in (p[1] + 1)..Len(hand.tricks) : is_full(hand.tricks[m])) =>
                  \A s \in Seats : partner_is_known[s]

\* C31 as amended: the only flag that becomes true is the partner's own (the
\* player dealt the called card), and it becomes true at the partner's first
\* play call after the one that played the called card; every other flag
\* stays false, and no flag is true while the called card lies in no trick
\* of the hand.
C31_OnlyPartnerFlagFlipsAtItsNextPlay ==
    /\ \A s \in Seats : partner_is_known[s] => (InHand /\ CalledAt # {})
    /\ pc \in {"play", "score", "reset"} =>
          \A s \in Seats :
              partner_is_known[s] <=>
                  \E p \in CalledAt : PlayedBy(p[1], p[2]) = s /\ PlayedAfter(s, p)

\* C31 witness: the called card lies in a trick, a later trick is full, the
\* seat that played the called card has its flag set and no other seat has.
C31_Witness ==
    /\ pc = "play"
    /\ \E p \in CalledAt :
          /\ \E m \in (p[1] + 1)..Len(hand.tricks) : is_full(hand.tricks[m])
          /\ partner_is_known[PlayedBy(p[1], p[2])]
          /\ \A s \in Seats \ {PlayedBy(p[1], p[2])} : ~partner_is_known[s]

\* C32: no hand in which a seat picks ends in a failure, and a hand that is
\* returned for scoring has six full tricks of 30 distinct cards and leaves
\* no player with a held card.
C32_PickedHandsRunToCompletion ==
    /\ pc # "crashed"
    /\ error = NoError
    /\ pc \in {"score", "reset"} =>
          /\ IsComplete(hand)
          /\ Cardinality(PlayedCards) = 30
          /\ \A s \in Seats : dealt_cards[s] = <<>>

\* C33: the pick of play_hand leaves the picker with six held cards and a
\* bury of two cards, which together are the six cards it was dealt and the
\* two cards of the blind, a masked card counting as the card it hides.
C33_PickLeavesSixHeldTwoBuried ==
    [][PickStep =>
          /\ Len(dealt_cards'[under_the_gun]) = 6
          /\ is_picker(bury'[under_the_gun])
          /\ Len(bury'[under_the_gun]) = 2
          /\ {reveal(c) : c \in Range(dealt_cards'[under_the_gun])
                                   \cup Range(bury'[under_the_gun])} = PickPool]_vars

\* C34: a take call on a full trick succeeds and saves the trick as the
\* player's last taken trick with every hidden card replaced by the card it
\* reveals, and points_taken has grown by the true points of the five cards.
C34_TakeRevealsAndCounts ==
    (call.op = "take" /\ Len(call.trick) = 5) =>
        /\ error = NoError
        /\ Len(tricks[0]) = call.n
        /\ tricks[0][call.n] = [i \in 1..5 |-> reveal(call.trick[i])]
        /\ points_taken(tricks[0], bury[0]) = call.points + TruePoints(call.trick)

\* C35: in a hand played to its end in which the picker is not alone, the
\* called card lies at exactly one position of the tricks, it was played by
\* a seat other than the picker's, and seat_with_card finds that seat for
\* it, so that the partner lookup of the scoring does not fail.
C35_CalledCardPlayedOnceByAnotherSeat ==
    /\ error # "ValueError"
    /\ (pc \in {"score", "reset"} /\ hand.pick_style # ALONE) =>
          /\ Cardinality(CalledAt) = 1
          /\ \A p \in CalledAt :
                /\ PlayedBy(p[1], p[2]) # hand.picker_seat
                /\ seat_with_card(hand, hand.called_card) = PlayedBy(p[1], p[2])
          /\ seat_with_card(hand, hand.called_card) \in Seats \ {hand.picker_seat}

\* C35 witness: a hand of an under picker has been played to its end and
\* scored; the picker played its masked card of the called suit and another
\* seat played the called card.
C35_Witness ==
    /\ pc = "reset"
    /\ hand.pick_style = UNDER
    /\ \E p \in Positions :
          /\ is_hidden(hand.tricks[p[1]][p[2]])
          /\ suit(hand.tricks[p[1]][p[2]]) = suit(hand.called_card)
          /\ PlayedBy(p[1], p[2]) = hand.picker_seat
    /\ \E p \in CalledAt : PlayedBy(p[1], p[2]) # hand.picker_seat

\* The seats that hold the called card as partner.
HoldingPartners ==
    {s \in Seats : partner_seat[s] = s /\ hand.called_card \in Range(dealt_cards[s])}

\* C36: at the start of a trick, if the partner still holds the called card
\* then no trick of the hand so far was led with a fail card of the called
\* suit; and a partner that leads a fail card of the called suit other than
\* the called card does so only after a trick led in the called suit.
C36_PartnerHoldsCalledCardUntilSuitLed ==
    /\ (pc = "play" /\ IsLead(hand) /\ HoldingPartners # {}) => ~called_has_been_led(hand)
    /\ (pc \in {"play", "score"} /\ LastBy(PartnerStrategy) /\ LastWasLead
          /\ IsCalledSuitFail(last.card, hand) /\ last.card # hand.called_card) =>
          CalledSuitLedEarlier

\* C36 witness: the partner, having played the called card to a trick led in
\* the called suit while it held another fail card of that suit, has now led
\* a fail card of the called suit.
C36_Witness ==
    /\ pc = "play"
    /\ LastBy(PartnerStrategy)
    /\ LastWasLead
    /\ IsCalledSuitFail(last.card, hand)
    /\ last.card # hand.called_card
    /\ \E p \in CalledAt :
          /\ PlayedBy(p[1], p[2]) = last.seat
          /\ p[1] < Len(hand.tricks)
          /\ IsCalledSuitFail(hand.tricks[p[1]][1], hand)

\* The cards of the hand's tricks, in trick order, that seat_with_card
\* gives to seat s.
CardsOfSeat(s) ==
    LET IsOfSeat(c) == seat_with_card(hand, c) = s
        Of[n \in 0..Len(hand.tricks)] ==
            IF n = 0 THEN <<>> ELSE Of[n - 1] \o SelectSeq(hand.tricks[n], IsOfSeat)
    IN  Of[Len(hand.tricks)]

\* C37: for a hand played to its end and every seat s,
\* cards_played_by_seat(hand, s) is the six cards, one of each trick in
\* trick order, for which seat_with_card gives s.
C37_CardsPlayedBySeatMatchSeatWithCard ==
    pc \in {"score", "reset"} =>
        \A s \in Seats :
            /\ Len(CardsOfSeat(s)) = 6
            /\ cards_played_by_seat(hand, <<s>>) = CardsOfSeat(s)

\* C38: in a trick with a trump, no trump played before the winner has the
\* winner's strength: of several trumps of maximal strength (Queens or Jacks
\* of different suits) the one played first wins.
C38_EarliestOfEqualTrumpsWins ==
    (the_trick # <<>> /\ HasTrump(the_trick)) =>
        /\ is_trump(the_trick[TheWinner])
        /\ \A j \in 1..Len(the_trick) :
              (is_trump(the_trick[j]) /\ strength(the_trick[j]) >= strength(the_trick[TheWinner]))
                  => TheWinner <= j

\* C38 witness: a full trick holds the Queen of Spades at the second place
\* and the Queen of Clubs at the fourth, and the Queen of Spades wins.
C38_Witness ==
    /\ Len(the_trick) = 5
    /\ the_trick[2] = Plain(SPADE, QUEEN)
    /\ the_trick[4] = Plain(CLUB, QUEEN)
    /\ TheWinner = 2

====
